---- MODULE Spec2Model ----
(***************************************************************************)
(* Model of the selection / hover state machine of vis-network's           *)
(* SelectionHandler (src/lib/network/modules/SelectionHandler.js).         *)
(*                                                                         *)
(* One action per public handler.  Each action resets `log` and then       *)
(* appends, in program order, the internal calls it makes and the events   *)
(* it emits, so that order and payload claims can be read off the state.   *)
(* Arrays of ids without duplicates (the accumulator's Sets, the event     *)
(* payloads built from them) are modelled as sets.                         *)
(***************************************************************************)
EXTENDS Integers, Sequences, FiniteSets, TLC

VARIABLES
    body,              \* this.body: the nodes and edges of the network
    acc,               \* this._selectionAccumulator: current and committed sets
    selected,          \* ids of the nodes/edges whose .selected flag is true
    hover,             \* ids of the nodes/edges whose .hover flag is true
    hoverObj,          \* this.hoverObj: the keys of the two id -> object maps,
                       \* in insertion order (the order for-in visits them)
    lastHoveredNodes,  \* this.lastHoveredNodes
    options,           \* this.options
    isUserDragging,    \* window.isUserDragging
    wasUserDragging,   \* window.wasUserDragging
    pending,           \* hoverObject calls suspended at their await
    log,               \* calls made and events emitted by the last handler
    lastOp,            \* name of the last handler that ran
    thrown,            \* what the last handler threw ("none" if it returned)
    hit,               \* what getNodeAt / getEdgeAt answer for the pointer of
                       \* the last pointer handler
    told               \* the objects a listener registered on body.emitter
                       \* takes to be hovered: a hover event came for them
                       \* and no blur event since

vars == <<body, acc, selected, hover, hoverObj, lastHoveredNodes, options,
          isUserDragging, wasUserDragging, pending, log, lastOp, thrown, hit,
          told>>

hoverVars == <<body, hover, hoverObj, lastHoveredNodes, isUserDragging,
               wasUserDragging, pending>>

-----------------------------------------------------------------------------
(* Bounds *)

\* longest id list passed to setSelection / selectNodes / selectEdges
MaxIds == 2

\* most hoverObject calls that may be suspended at their await at once
MaxPending == 1

\* deepest nesting of find_subordinate_nodes the call stack holds
MaxDepth == 4

-----------------------------------------------------------------------------------------------------------------------------------------------------
(* The network the handler works on (this.body).  The handler only reads   *)
(* it; each specification starts from one of the networks below.           *)

Undefined == "undefined"

\* an id that is a key of neither body.nodes nor body.edges
MissingId == "missing"

Edge(f, t, ev) == [fromId |-> f, toId |-> t, eventualId |-> ev, connected |-> TRUE]

NodeOf(lvl, lbl, owner) == [level |-> lvl, isLabelNode |-> lbl, labelOfNode |-> owner]

\* a node and its label node, joined by one edge
TinyBody ==
    [nodeIndices |-> <<"n1", "n2">>,
     edgeIndices |-> <<"e1">>,
     nodes |-> [n \in {"n1", "n2"} |->
                  IF n = "n2" THEN NodeOf(0, TRUE, "n1")
                  ELSE NodeOf(1, FALSE, Undefined)],
     edges |-> [e \in {"e1"} |-> Edge("n2", "n1", Undefined)]]

\* two nodes joined by two edges
TwinBody ==
    [nodeIndices |-> <<"n1", "n2">>,
     edgeIndices |-> <<"e1", "e2">>,
     nodes |-> [n \in {"n1", "n2"} |-> NodeOf(0, FALSE, Undefined)],
     edges |-> [e \in {"e1", "e2"} |->
                  IF e = "e1" THEN Edge("n1", "n2", Undefined)
                  ELSE Edge("n2", "n1", Undefined)]]

\* three nodes in a line: n1 - e1 - n2 - e2 - n3
LineBody ==
    [nodeIndices |-> <<"n1", "n2", "n3">>,
     edgeIndices |-> <<"e1", "e2">>,
     nodes |-> [n \in {"n1", "n2", "n3"} |-> NodeOf(0, FALSE, Undefined)],
     edges |-> [e \in {"e1", "e2"} |->
                  IF e = "e1" THEN Edge("n1", "n2", Undefined)
                  ELSE Edge("n2", "n3", Undefined)]]

\* a level-2 node whose only way down is the plain edge e1 from the level-0
\* node n2
HopBody ==
    [nodeIndices |-> <<"n1", "n2">>,
     edgeIndices |-> <<"e1">>,
     nodes |-> [n \in {"n1", "n2"} |->
                  IF n = "n1" THEN NodeOf(2, FALSE, Undefined)
                  ELSE NodeOf(0, FALSE, Undefined)],
     edges |-> [e \in {"e1"} |-> Edge("n2", "n1", Undefined)]]

\* a node and its label node, joined by two edges
FanBody ==
    [nodeIndices |-> <<"n1", "n2">>,
     edgeIndices |-> <<"e1", "e2">>,
     nodes |-> [n \in {"n1", "n2"} |->
                  IF n = "n2" THEN NodeOf(0, TRUE, "n1")
                  ELSE NodeOf(1, FALSE, Undefined)],
     edges |-> [e \in {"e1", "e2"} |->
                  IF e = "e1" THEN Edge("n2", "n1", Undefined)
                  ELSE Edge("n1", "n2", Undefined)]]


\* edge e1; n1 <- n3 by the 2-node edge e2; n3 is a label node
ChainBody ==
    [nodeIndices |-> <<"n1", "n2", "n3">>,
     edgeIndices |-> <<"e1", "e2">>,
     nodes |-> [n \in {"n1", "n2", "n3"} |->
                  IF n = "n3" THEN NodeOf(0, TRUE, "n1")
                  ELSE IF n = "n2" THEN NodeOf(2, FALSE, Undefined)
                  ELSE NodeOf(1, FALSE, Undefined)],
     edges |-> [e \in {"e1", "e2"} |->
                  IF e = "e1" THEN Edge("n1", "n2", "n3")
                  ELSE Edge("n3", "n1", Undefined)]]

\* body.nodeIndices, in render order
nodeIndices == body.nodeIndices

\* body.edgeIndices, in iteration order
edgeIndices == body.edgeIndices

\* the keys of body.nodes
NodeIds == DOMAIN body.nodes

\* the keys of body.edges
EdgeIds == DOMAIN body.edges

\* edge.fromId
fromId(e) == body.edges[e].fromId

\* edge.toId
toId(e) == body.edges[e].toId

\* edge.eventualId (undefined for a plain 2-node edge)
eventualId(e) == body.edges[e].eventualId

\* edge.connected
connected(e) == body.edges[e].connected

\* node.edges: the edges attached to a node
nodeEdges(n) == {e \in EdgeIds : fromId(e) = n \/ toId(e) = n}

\* node.level
level(n) == body.nodes[n].level

\* node.isLabelNode
isLabelNode(n) == body.nodes[n].isLabelNode

\* obj instanceof Node
IsNode(obj) == obj \in NodeIds

\* obj instanceof Edge
IsEdge(obj) == obj \in EdgeIds

-----
(* Pointer input: what the geometry answers for one pointer position. *)

\* distances getDistanceToEdge may answer (mindist starts at 10)
Dists == {9, 10}

\* a pointer: the nodes whose isOverlappingWith(probe) is true, and each
\* edge's getDistanceToEdge
Pointers == [ov : SUBSET NodeIds, dist : [EdgeIds -> Dists]]

NoHit == [node |-> Undefined, edge |-> Undefined]

-----------------------------------------------------------------------------
(* Log entries *)

NoPrev == <<>>

Prev(ns, es) == <<[nodes |-> ns, edges |-> es]>>

\* an internal call, recorded to expose the order of a handler's steps
Call(name, arg) ==
    [kind |-> "call", type |-> name, id |-> arg, nodes |-> {}, edges |-> {},
     prev |-> NoPrev, list |-> <<>>]

\* body.emitter.emit(type, ...)
Emit(type, arg, ns, es, prev, list) ==
    [kind |-> "emit", type |-> type, id |-> arg, nodes |-> ns, edges |-> es,
     prev |-> prev, list |-> list]

Redraw == Emit("_requestRedraw", Undefined, {}, {}, NoPrev, <<>>)

\* what a listener makes of one event: a hover event names a hovered
\* object, a blur event one that is hovered no more
heardOne(t, ev) ==
    IF ev.kind = "emit" /\ ev.type \in {"hoverNode", "hoverEdge"}
    THEN t \cup {ev.id}
    ELSE IF ev.kind = "emit" /\ ev.type \in {"blurNode", "blurEdge"}
    THEN t \ {ev.id}
    ELSE t

RECURSIVE heardFrom(_, _, _)
heardFrom(t, l, i) ==
    IF i > Len(l) THEN t ELSE heardFrom(heardOne(t, l[i]), l, i + 1)

\* a listener is registered only on a network that says so
Heard(t, l) == IF "listener" \in DOMAIN body THEN heardFrom(t, l, 1) ELSE t

\* the events of a log, without the call marks
Events(l) == SelectSeq(l, LAMBDA x : x.kind = "emit")

SelectionEventTypes ==
    {"deselectEdge", "deselectNode", "selectNode", "selectEdge", "select"}

IsSelectionEvent(x) == x.kind = "emit" /\ x.type \in SelectionEventTypes

\* the types of the selection change events of a log, in order
SelectionEvents(l) ==
    LET s == SelectSeq(l, IsSelectionEvent)
    IN  [i \in 1..Len(s) |-> s[i].type]

-----------------------------------------------------------------------------
(* SelectionAccumulator (./selection, not among the sources): a committed  *)
(* set and a current set per collection.                                   *)

EmptyAcc == [nodes |-> {}, edges |-> {}, prevNodes |-> {}, prevEdges |-> {}]

addNodes(a, S) == [a EXCEPT !.nodes = @ \cup S]

addEdges(a, S) == [a EXCEPT !.edges = @ \cup S]

deleteNodes(a, S) == [a EXCEPT !.nodes = @ \ S]

deleteEdges(a, S) == [a EXCEPT !.edges = @ \ S]

clear(a) == [a EXCEPT !.nodes = {}, !.edges = {}]

getNodes(a) == a.nodes

getEdges(a) == a.edges

\* the summary commit() returns
changes(a) ==
    [nodes |-> [added    |-> a.nodes \ a.prevNodes,
                deleted  |-> a.prevNodes \ a.nodes,
                previous |-> a.prevNodes],
     edges |-> [added    |-> a.edges \ a.prevEdges,
                deleted  |-> a.prevEdges \ a.edges,
                previous |-> a.prevEdges]]

\* the accumulator after commit()
commit(a) == [a EXCEPT !.prevNodes = a.nodes, !.prevEdges = a.edges]

\* the .selected flags after commit(): added items are selected, deleted
\* items unselected
commitFlags(a, flags) ==
    LET c == changes(a)
    IN  (flags \cup c.nodes.added \cup c.edges.added)
            \ (c.nodes.deleted \cup c.edges.deleted)

-----------------------------------------------------------------------------
(* Hit testing *)

\* getNodeAt that answers the first overlapping node instead of the last
getNodeAtFirst(p) ==
    LET idx == {i \in 1..Len(nodeIndices) : nodeIndices[i] \in p.ov}
    IN  IF idx = {} THEN Undefined
        ELSE nodeIndices[CHOOSE i \in idx : \A j \in idx : i <= j]

\* getNodeAt: the last overlapping node in body.nodeIndices, or undefined
getNodeAt(p) ==
    LET idx == {i \in 1..Len(nodeIndices) : nodeIndices[i] \in p.ov}
    IN  IF idx = {} THEN Undefined
        ELSE nodeIndices[CHOOSE i \in idx : \A j \in idx : j <= i]

\* the loop of getEdgeAt with <= for <: a later edge wins a tie and a
\* distance of exactly the tolerance is a hit
RECURSIVE edgeScanInclusive(_, _, _, _)
edgeScanInclusive(p, i, mindist, best) ==
    IF i > Len(edgeIndices) THEN best
    ELSE LET e == edgeIndices[i]
         IN  IF connected(e) /\ p.dist[e] <= mindist
             THEN edgeScanInclusive(p, i + 1, p.dist[e], e)
             ELSE edgeScanInclusive(p, i + 1, mindist, best)

\* the loop of getEdgeAt from index i on, with the running minimum
RECURSIVE edgeScan(_, _, _, _)
edgeScan(p, i, mindist, best) ==
    IF i > Len(edgeIndices) THEN best
    ELSE LET e == edgeIndices[i]
         IN  IF connected(e) /\ p.dist[e] < mindist
             THEN edgeScan(p, i + 1, p.dist[e], e)
             ELSE edgeScan(p, i + 1, mindist, best)

\* getEdgeAt: the closest connected edge within 10, or undefined
getEdgeAt(p) == edgeScan(p, 1, 10, Undefined)

\* the hit test with the operands of || swapped: the edge wins
objectAtEdgeFirst(p) ==
    IF getEdgeAt(p) # Undefined THEN getEdgeAt(p) ELSE getNodeAt(p)

\* const obj = this.getNodeAt(pointer) || this.getEdgeAt(pointer)
objectAt(p) ==
    IF getNodeAt(p) # Undefined THEN getNodeAt(p) ELSE getEdgeAt(p)

\* the call marks of that expression: getEdgeAt runs only if no node is hit
objectAtCalls(p) ==
    IF getNodeAt(p) # Undefined
    THEN <<Call("getNodeAt", getNodeAt(p))>>
    ELSE <<Call("getNodeAt", Undefined), Call("getEdgeAt", getEdgeAt(p))>>

-----------------------------------------------------------------------------
(* Selection helpers; each takes and returns the pair [acc, log]. *)

\* getSelection()
getSelection(a) == [nodes |-> getNodes(a), edges |-> getEdges(a)]

\* selectObject that unselects an object that is already in the selection
selectObjectToggle(st, obj, highlightEdges) ==
    LET a1 == IF IsNode(obj)
              THEN IF obj \in getNodes(st.acc)
                   THEN deleteNodes(st.acc, {obj})
                   ELSE addNodes(IF highlightEdges = TRUE
                                 THEN addEdges(st.acc, nodeEdges(obj))
                                 ELSE st.acc, {obj})
              ELSE IF obj \in getEdges(st.acc)
                   THEN deleteEdges(st.acc, {obj})
                   ELSE addEdges(st.acc, {obj})
    IN  [acc |-> a1,
         log |-> st.log \o <<Call("selectObject", obj),
                             Emit("selectedNodes", Undefined, getNodes(a1), {},
                                  NoPrev, <<>>)>>]

\* selectObject that announces the selection itself, from the raw read
selectObjectEmitsSelect(st, obj, highlightEdges) ==
    LET a1 == IF IsNode(obj)
              THEN addNodes(IF highlightEdges = TRUE
                            THEN addEdges(st.acc, nodeEdges(obj))
                            ELSE st.acc, {obj})
              ELSE addEdges(st.acc, {obj})
    IN  [acc |-> a1,
         log |-> st.log \o <<Call("selectObject", obj),
                             Emit("selectedNodes", Undefined, getNodes(a1), {},
                                  NoPrev, <<>>),
                             Emit(IF IsNode(obj) THEN "selectNode"
                                  ELSE "selectEdge", Undefined, getNodes(a1),
                                  getEdges(a1), NoPrev, <<>>)>>]

\* selectObject(obj, highlightEdges), obj defined
selectObject(st, obj, highlightEdges) ==
    LET a1 == IF IsNode(obj)
              THEN addNodes(IF highlightEdges = TRUE
                            THEN addEdges(st.acc, nodeEdges(obj))
                            ELSE st.acc, {obj})
              ELSE addEdges(st.acc, {obj})
    IN  [acc |-> a1,
         log |-> st.log \o <<Call("selectObject", obj),
                             Emit("selectedNodes", Undefined, getNodes(a1), {},
                                  NoPrev, <<>>)>>]

\* _removeFromSelection(obj)
removeFromSelection(a, obj) ==
    IF IsNode(obj)
    THEN deleteEdges(deleteNodes(a, {obj}), nodeEdges(obj))
    ELSE deleteEdges(a, {obj})

\* unselectAll that also forgets the committed selection
unselectAllCommitted(st) ==
    [acc |-> EmptyAcc, log |-> st.log \o <<Call("unselectAll", Undefined)>>]

\* unselectAll()
unselectAll(st) ==
    [acc |-> clear(st.acc), log |-> st.log \o <<Call("unselectAll", Undefined)>>]

\* generateClickEvent(eventType, event, pointer, oldSelection, emptySelection)
generateClickEvent(a, eventType, oldSelection, emptySelection) ==
    LET tmp == getSelection(a)
    IN  Emit(eventType, Undefined,
             IF emptySelection = TRUE THEN {} ELSE tmp.nodes,
             IF emptySelection = TRUE THEN {} ELSE tmp.edges,
             oldSelection, <<>>)

-----------------------------------------------------------------------------------------------------------------------------------------------------
(* State after construction *)

defaultOptions ==
    [selectable |-> TRUE, selectConnectedEdges |-> TRUE,
     hoverConnectedEdges |-> TRUE]

InitWith(b) ==
    /\ body = b
    /\ acc = EmptyAcc
    /\ selected = {}
    /\ hover = {}
    /\ hoverObj = [nodes |-> <<>>, edges |-> <<>>]
    /\ lastHoveredNodes = <<>>
    /\ options = defaultOptions
    /\ isUserDragging = "undefined"
    /\ wasUserDragging = "undefined"
    /\ pending = <<>>
    /\ log = <<>>
    /\ lastOp = "init"
    /\ thrown = "none"
    /\ hit = NoHit
    /\ told = {}

-----------------------------------------------------------------------------
(* Inputs of the public methods *)

\* what both hit tests answer for a pointer
hitOf(p) == [node |-> getNodeAt(p), edge |-> getEdgeAt(p)]

\* lists of at most MaxIds ids drawn from S
IdLists(S) == UNION {[1..n -> S] : n \in 0..MaxIds}

\* an optional boolean argument
OptBool == {"undefined", "true", "false"}

\* the ids handed to setSelection / selectNodes / selectEdges: those of the
\* networks above and one that no network has
NodeIdArgs == {"n1", "n2", MissingId}

EdgeIdArgs == {"e1", MissingId}

\* the selection argument of setSelection: an absent property has has* FALSE
Selections ==
    [hasNodes : BOOLEAN, nodes : IdLists(NodeIdArgs),
     hasEdges : BOOLEAN, edges : IdLists(EdgeIdArgs)]

\* only the well-formed encodings: an absent list is written <<>>, the two
\* lists together hold at most MaxIds ids, and an empty list next to a
\* non-empty one (which the loops skip) is left out
SelectionArgs ==
    {s \in Selections :
        /\ (~s.hasNodes => s.nodes = <<>>)
        /\ (~s.hasEdges => s.edges = <<>>)
        /\ Len(s.nodes) + Len(s.edges) <= MaxIds
        /\ (s.hasNodes /\ s.nodes = <<>> => s.edges = <<>>)
        /\ (s.hasEdges /\ s.edges = <<>> => s.nodes = <<>>)}

NoSelection ==
    [hasNodes |-> FALSE, nodes |-> <<>>, hasEdges |-> FALSE, edges |-> <<>>]

-----------------------------------------------------------------------------
(* Handlers.  The *Do operators compute a handler's result from the state  *)
(* it reads; the actions apply them.                                       *)

\* setOptions(options): one of the handler's fields is overwritten
setOptionsIn(fields) ==
    \E f \in fields, v \in BOOLEAN :
        /\ options[f] # v
        /\ options' = [options EXCEPT ![f] = v]
        /\ log' = <<>>
        /\ lastOp' = "setOptions"
        /\ told' = Heard(told, log')
        /\ thrown' = "none"
        /\ hit' = NoHit
        /\ UNCHANGED <<acc, selected>>
        /\ UNCHANGED hoverVars

setOptions == setOptionsIn({"selectable", "selectConnectedEdges"})

\* setOptions({selectConnectedEdges: v})
setEdgeOptions == setOptionsIn({"selectConnectedEdges"})

\* selectOnPoint that keeps the old selection when the pointer hits nothing
selectOnPointDoKeepOnMiss(a, opts, p) ==
    IF opts.selectable = TRUE
    THEN LET obj == objectAt(p)
             s0  == [acc |-> a, log |-> objectAtCalls(p)]
             s2  == IF obj # Undefined
                    THEN selectObject(unselectAll(s0), obj,
                                      opts.selectConnectedEdges)
                    ELSE s0
         IN  [acc |-> s2.acc, log |-> s2.log \o <<Redraw>>]
    ELSE [acc |-> a, log |-> <<>>]

\* selectOnPoint that requests the redraw before it selects the hit
selectOnPointDoRedrawFirst(a, opts, p) ==
    IF opts.selectable = TRUE
    THEN LET obj == objectAt(p)
             s0  == [acc |-> a, log |-> objectAtCalls(p)]
             s1  == unselectAll(s0)
             s1r == [s1 EXCEPT !.log = @ \o <<Redraw>>]
         IN  IF obj # Undefined
             THEN selectObject(s1r, obj, opts.selectConnectedEdges)
             ELSE s1r
    ELSE [acc |-> a, log |-> <<>>]

\* selectOnPoint(pointer)
selectOnPointDo(a, opts, p) ==
    IF opts.selectable = TRUE
    THEN LET obj == objectAt(p)
             s0  == [acc |-> a, log |-> objectAtCalls(p)]
             s1  == unselectAll(s0)
             s2  == IF obj # Undefined
                    THEN selectObject(s1, obj, opts.selectConnectedEdges)
                    ELSE s1
         IN  [acc |-> s2.acc, log |-> s2.log \o <<Redraw>>]
    ELSE [acc |-> a, log |-> <<>>]

selectOnPoint ==
    \E p \in Pointers :
        \E r \in {selectOnPointDo(acc, options, p)} :
            /\ acc' = r.acc
            /\ log' = r.log
            /\ lastOp' = "selectOnPoint"
            /\ told' = Heard(told, log')
            /\ thrown' = "none"
            /\ hit' = hitOf(p)
            /\ UNCHANGED <<selected, options>>
            /\ UNCHANGED hoverVars

\* deselectObject that takes a node out and leaves its edges selected
deselectObjectKeepEdges(st, obj) ==
    IF obj \in st.selected
    THEN [acc |-> IF IsNode(obj) THEN deleteNodes(st.acc, {obj})
                  ELSE deleteEdges(st.acc, {obj}),
          selected |-> st.selected \ {obj},
          log |-> st.log \o <<Call("deselectObject", obj)>>]
    ELSE [st EXCEPT !.log = @ \o <<Call("deselectObject", obj)>>]

\* deselectObject(obj)
deselectObject(st, obj) ==
    IF obj \in st.selected
    THEN [acc |-> removeFromSelection(st.acc, obj),
          selected |-> st.selected \ {obj},
          log |-> st.log \o <<Call("deselectObject", obj)>>]
    ELSE [st EXCEPT !.log = @ \o <<Call("deselectObject", obj)>>]

\* selectAdditionalOnPoint(pointer); changed is its return value
selectAdditionalOnPointDo(a, flags, opts, p) ==
    LET obj == objectAt(p)
        s0  == [acc |-> a, selected |-> flags, log |-> objectAtCalls(p)]
    IN  IF opts.selectable = TRUE
        THEN IF obj # Undefined
             THEN LET s1 == IF obj \in flags
                            THEN deselectObject(s0, obj)
                            ELSE LET r == selectObject(
                                            [acc |-> a, log |-> s0.log], obj,
                                            opts.selectConnectedEdges)
                                 IN  [acc |-> r.acc, selected |-> flags,
                                      log |-> r.log]
                  IN  [acc |-> s1.acc, selected |-> s1.selected,
                       log |-> s1.log \o <<Redraw>>, changed |-> TRUE]
             ELSE [acc |-> a, selected |-> flags, log |-> s0.log,
                   changed |-> FALSE]
        ELSE [acc |-> a, selected |-> flags, log |-> <<>>, changed |-> FALSE]

selectAdditionalOnPoint ==
    \E p \in Pointers :
        \E r \in {selectAdditionalOnPointDo(acc, selected, options, p)} :
            /\ acc' = r.acc
            /\ selected' = r.selected
            /\ log' = r.log
            /\ lastOp' = "selectAdditionalOnPoint"
            /\ told' = Heard(told, log')
            /\ thrown' = "none"
            /\ hit' = hitOf(p)
            /\ UNCHANGED options
            /\ UNCHANGED hoverVars

\* unselectAll(), called from outside
unselectAllOp ==
    /\ acc' = clear(acc)
    /\ log' = <<Call("unselectAll", Undefined)>>
    /\ lastOp' = "unselectAll"
    /\ told' = Heard(told, log')
    /\ thrown' = "none"
    /\ hit' = NoHit
    /\ UNCHANGED <<selected, options>>
    /\ UNCHANGED hoverVars

\* commitWithoutEmitting()
commitWithoutEmitting ==
    /\ acc' = commit(acc)
    /\ selected' = commitFlags(acc, selected)
    /\ log' = <<Call("commit", Undefined)>>
    /\ lastOp' = "commitWithoutEmitting"
    /\ told' = Heard(told, log')
    /\ thrown' = "none"
    /\ hit' = NoHit
    /\ UNCHANGED options
    /\ UNCHANGED hoverVars

\* commitAndEmit with the select-node test moved ahead of the deselect tests
commitAndEmitEventsSelectFirst(a) ==
    LET selectionChanges  == changes(a)
        a1                == commit(a)
        previousSelection == Prev(selectionChanges.nodes.previous,
                                  selectionChanges.edges.previous)
        e1 == IF selectionChanges.edges.deleted # {}
              THEN <<generateClickEvent(a1, "deselectEdge",
                                        previousSelection, FALSE)>>
              ELSE <<>>
        e2 == IF selectionChanges.nodes.deleted # {}
              THEN <<generateClickEvent(a1, "deselectNode",
                                        previousSelection, FALSE)>>
              ELSE <<>>
        e3 == IF selectionChanges.nodes.added # {}
              THEN <<generateClickEvent(a1, "selectNode", NoPrev, FALSE)>>
              ELSE <<>>
        e4 == IF selectionChanges.edges.added # {}
              THEN <<generateClickEvent(a1, "selectEdge", NoPrev, FALSE)>>
              ELSE <<>>
        sel == e3 \o e1 \o e2 \o e4
    IN  IF sel # <<>>
        THEN sel \o <<generateClickEvent(a1, "select", NoPrev, FALSE)>>
        ELSE sel

\* commitAndEmit handing the new selection to the deselect events as the
\* previous one
commitAndEmitEventsNewAsPrevious(a) ==
    LET selectionChanges  == changes(a)
        a1                == commit(a)
        previousSelection == Prev(a1.nodes, a1.edges)
        e1 == IF selectionChanges.edges.deleted # {}
              THEN <<generateClickEvent(a1, "deselectEdge",
                                        previousSelection, FALSE)>>
              ELSE <<>>
        e2 == IF selectionChanges.nodes.deleted # {}
              THEN <<generateClickEvent(a1, "deselectNode",
                                        previousSelection, FALSE)>>
              ELSE <<>>
        e3 == IF selectionChanges.nodes.added # {}
              THEN <<generateClickEvent(a1, "selectNode", NoPrev, FALSE)>>
              ELSE <<>>
        e4 == IF selectionChanges.edges.added # {}
              THEN <<generateClickEvent(a1, "selectEdge", NoPrev, FALSE)>>
              ELSE <<>>
        sel == e1 \o e2 \o e3 \o e4
    IN  IF sel # <<>>
        THEN sel \o <<generateClickEvent(a1, "select", NoPrev, FALSE)>>
        ELSE sel

\* the events of commitAndEmit(pointer, event), in the order of its ifs
commitAndEmitEvents(a) ==
    LET selectionChanges  == changes(a)
        a1                == commit(a)
        previousSelection == Prev(selectionChanges.nodes.previous,
                                  selectionChanges.edges.previous)
        e1 == IF selectionChanges.edges.deleted # {}
              THEN <<generateClickEvent(a1, "deselectEdge",
                                        previousSelection, FALSE)>>
              ELSE <<>>
        e2 == IF selectionChanges.nodes.deleted # {}
              THEN <<generateClickEvent(a1, "deselectNode",
                                        previousSelection, FALSE)>>
              ELSE <<>>
        e3 == IF selectionChanges.nodes.added # {}
              THEN <<generateClickEvent(a1, "selectNode", NoPrev, FALSE)>>
              ELSE <<>>
        e4 == IF selectionChanges.edges.added # {}
              THEN <<generateClickEvent(a1, "selectEdge", NoPrev, FALSE)>>
              ELSE <<>>
        sel == e1 \o e2 \o e3 \o e4
    IN  IF sel # <<>>
        THEN sel \o <<generateClickEvent(a1, "select", NoPrev, FALSE)>>
        ELSE sel

\* commitAndEmit(pointer, event)
commitAndEmit ==
    /\ acc' = commit(acc)
    /\ selected' = commitFlags(acc, selected)
    /\ log' = <<Call("commit", Undefined)>> \o commitAndEmitEvents(acc)
    /\ lastOp' = "commitAndEmit"
    /\ told' = Heard(told, log')
    /\ thrown' = "none"
    /\ hit' = NoHit
    /\ UNCHANGED options
    /\ UNCHANGED hoverVars

\* generateClickEvent("click", event, pointer, undefined, emptySelection),
\* as the interaction handler calls it
clickEvent ==
    \E emptySelection \in BOOLEAN :
        /\ log' = <<generateClickEvent(acc, "click", NoPrev, emptySelection)>>
        /\ lastOp' = IF emptySelection THEN "clickEmpty" ELSE "click"
        /\ told' = Heard(told, log')
        /\ thrown' = "none"
        /\ hit' = NoHit
        /\ UNCHANGED <<acc, selected, options>>
        /\ UNCHANGED hoverVars

\* the loop over selection.nodes of setSelection, from index i on; st is
\* [acc, log, thrown]
RECURSIVE selectNodeIds(_, _, _, _)
selectNodeIds(st, ids, i, highlightEdges) ==
    IF i > Len(ids) THEN st
    ELSE IF ids[i] \notin NodeIds
         THEN [st EXCEPT !.thrown = "RangeError"]
         ELSE IF ~isLabelNode(ids[i])
              THEN LET r == selectObject([acc |-> st.acc, log |-> st.log],
                                         ids[i], highlightEdges)
                   IN  selectNodeIds([acc |-> r.acc, log |-> r.log,
                                      thrown |-> st.thrown],
                                     ids, i + 1, highlightEdges)
              ELSE selectNodeIds(st, ids, i + 1, highlightEdges)

\* the loop over selection.edges of setSelection, from index i on
RECURSIVE selectEdgeIds(_, _, _, _)
selectEdgeIds(st, ids, i, dflt) ==
    IF i > Len(ids) THEN st
    ELSE IF ids[i] \notin EdgeIds
         THEN [st EXCEPT !.thrown = "RangeError"]
         ELSE LET r == selectObject([acc |-> st.acc, log |-> st.log],
                                    ids[i], dflt)
              IN  selectEdgeIds([acc |-> r.acc, log |-> r.log,
                                 thrown |-> st.thrown], ids, i + 1, dflt)

\* setSelection that commits what it staged before it rethrows
setSelectionDoCommitOnThrow(a, flags, opts, defined, sel, unselAll, highlightEdges) ==
    IF ~defined \/ (~sel.hasNodes /\ ~sel.hasEdges)
    THEN [acc |-> a, selected |-> flags, log |-> <<>>, thrown |-> "TypeError"]
    ELSE LET he == IF highlightEdges = "undefined"
                   THEN opts.selectConnectedEdges
                   ELSE highlightEdges = "true"
             s0 == [acc |-> a, log |-> <<>>]
             s1 == IF unselAll = "true" \/ unselAll = "undefined"
                   THEN unselectAll(s0) ELSE s0
             s2 == [acc |-> s1.acc, log |-> s1.log, thrown |-> "none"]
             s3 == IF sel.hasNodes THEN selectNodeIds(s2, sel.nodes, 1, he)
                   ELSE s2
             s4 == IF s3.thrown = "none" /\ sel.hasEdges
                   THEN selectEdgeIds(s3, sel.edges, 1,
                                      opts.selectConnectedEdges)
                   ELSE s3
         IN  [acc |-> commit(s4.acc),
              selected |-> commitFlags(s4.acc, flags),
              log |-> s4.log \o <<Redraw, Call("commit", Undefined)>>,
              thrown |-> s4.thrown]

\* setSelection(selection, options): the accumulator, the flags, the log
\* and what was thrown when it returns.  defined is FALSE for a missing
\* selection argument.
setSelectionDo(a, flags, opts, defined, sel, unselAll, highlightEdges) ==
    IF ~defined \/ (~sel.hasNodes /\ ~sel.hasEdges)
    THEN [acc |-> a, selected |-> flags, log |-> <<>>, thrown |-> "TypeError"]
    ELSE LET he == IF highlightEdges = "undefined"
                   THEN opts.selectConnectedEdges
                   ELSE highlightEdges = "true"
             s0 == [acc |-> a, log |-> <<>>]
             s1 == IF unselAll = "true" \/ unselAll = "undefined"
                   THEN unselectAll(s0) ELSE s0
             s2 == [acc |-> s1.acc, log |-> s1.log, thrown |-> "none"]
             s3 == IF sel.hasNodes THEN selectNodeIds(s2, sel.nodes, 1, he)
                   ELSE s2
             s4 == IF s3.thrown = "none" /\ sel.hasEdges
                   THEN selectEdgeIds(s3, sel.edges, 1,
                                      opts.selectConnectedEdges)
                   ELSE s3
         IN  IF s4.thrown # "none"
             THEN [acc |-> s4.acc, selected |-> flags, log |-> s4.log,
                   thrown |-> s4.thrown]
             ELSE [acc |-> commit(s4.acc),
                   selected |-> commitFlags(s4.acc, flags),
                   log |-> s4.log \o <<Redraw, Call("commit", Undefined)>>,
                   thrown |-> "none"]

setSelection ==
    \E defined \in BOOLEAN, sel \in SelectionArgs,
       unselAll \in OptBool, highlightEdges \in OptBool :
        /\ (~defined => sel = NoSelection /\ unselAll = "undefined"
                        /\ highlightEdges = "undefined")
        /\ \E r \in {setSelectionDo(acc, selected, options, defined, sel,
                                  unselAll, highlightEdges)} :
            /\ acc' = r.acc
            /\ selected' = r.selected
            /\ log' = r.log
            /\ lastOp' = "setSelection"
            /\ told' = Heard(told, log')
            /\ thrown' = r.thrown
            /\ hit' = NoHit
            /\ UNCHANGED options
            /\ UNCHANGED hoverVars

\* the argument of selectNodes / selectEdges: missing, an object without a
\* length, or an array of ids
ArrayArgKinds == {"undefined", "noLength", "array"}

\* selectNodes that clears the selection before it looks at its argument
selectNodesDoClearFirst(a, flags, opts, kind, ids, highlightEdges) ==
    IF kind # "array"
    THEN [acc |-> clear(a), selected |-> flags,
          log |-> <<Call("unselectAll", Undefined)>>, thrown |-> "string"]
    ELSE setSelectionDo(a, flags, opts, TRUE,
                        [hasNodes |-> TRUE, nodes |-> ids,
                         hasEdges |-> FALSE, edges |-> <<>>],
                        "undefined",
                        IF highlightEdges = "undefined" THEN "true"
                        ELSE highlightEdges)

\* selectNodes(selection, highlightEdges = true)
selectNodesDo(a, flags, opts, kind, ids, highlightEdges) ==
    IF kind # "array"
    THEN [acc |-> a, selected |-> flags, log |-> <<>>, thrown |-> "string"]
    ELSE setSelectionDo(a, flags, opts, TRUE,
                        [hasNodes |-> TRUE, nodes |-> ids,
                         hasEdges |-> FALSE, edges |-> <<>>],
                        "undefined",
                        IF highlightEdges = "undefined" THEN "true"
                        ELSE highlightEdges)

selectNodes ==
    \E kind \in ArrayArgKinds, ids \in IdLists(NodeIdArgs),
       highlightEdges \in OptBool :
        /\ (kind # "array" => ids = <<>> /\ highlightEdges = "undefined")
        /\ \E r \in {selectNodesDo(acc, selected, options, kind, ids,
                                 highlightEdges)} :
            /\ acc' = r.acc
            /\ selected' = r.selected
            /\ log' = r.log
            /\ lastOp' = "selectNodes"
            /\ told' = Heard(told, log')
            /\ thrown' = r.thrown
            /\ hit' = NoHit
            /\ UNCHANGED options
            /\ UNCHANGED hoverVars

\* selectEdges(selection)
selectEdgesDo(a, flags, opts, kind, ids) ==
    IF kind # "array"
    THEN [acc |-> a, selected |-> flags, log |-> <<>>, thrown |-> "string"]
    ELSE setSelectionDo(a, flags, opts, TRUE,
                        [hasNodes |-> FALSE, nodes |-> <<>>,
                         hasEdges |-> TRUE, edges |-> ids],
                        "undefined", "undefined")

selectEdges ==
    \E kind \in ArrayArgKinds, ids \in IdLists(EdgeIdArgs) :
        /\ (kind # "array" => ids = <<>>)
        /\ \E r \in {selectEdgesDo(acc, selected, options, kind, ids)} :
            /\ acc' = r.acc
            /\ selected' = r.selected
            /\ log' = r.log
            /\ lastOp' = "selectEdges"
            /\ told' = Heard(told, log')
            /\ thrown' = r.thrown
            /\ hit' = NoHit
            /\ UNCHANGED options
            /\ UNCHANGED hoverVars

-----------------------------------------------------------------------------
(* Hover helpers; h is [hover, nodes, edges, log, changed]: the .hover      *)
(* flags, the keys of hoverObj.nodes and hoverObj.edges, the log and the    *)
(* local hoverChanged.                                                      *)

Range(q) == {q[i] : i \in 1..Len(q)}

\* a delete that leaves the key in the map
keepKey(q, k) == q

\* delete map[k]
removeKey(q, k) == SelectSeq(q, LAMBDA x : x # k)

\* map[k] = obj: a new key goes last, an old one keeps its place
addKey(q, k) == IF k \in Range(q) THEN q ELSE Append(q, k)

\* _addToHover without the instanceof test: every object goes to the edges
addToHoverAsEdge(h, obj) == [h EXCEPT !.edges = addKey(@, obj)]

\* _addToHover(obj)
addToHover(h, obj) ==
    IF IsNode(obj) THEN [h EXCEPT !.nodes = addKey(@, obj)]
    ELSE [h EXCEPT !.edges = addKey(@, obj)]

\* emitBlurEvent(event, pointer, object)
emitBlurEvent(h, obj) ==
    IF obj \in h.hover
    THEN [h EXCEPT !.hover = @ \ {obj},
                   !.log = @ \o <<Emit(IF IsNode(obj) THEN "blurNode"
                                       ELSE "blurEdge",
                                       obj, {}, {}, NoPrev, <<>>)>>]
    ELSE h

\* emitHoverEvent(event, pointer, object): h.changed is its return value
emitHoverEvent(h, obj) ==
    IF obj \notin h.hover
    THEN LET h1 == addToHover([h EXCEPT !.hover = @ \cup {obj}], obj)
         IN  [h1 EXCEPT !.changed = TRUE,
                        !.log = @ \o <<Emit(IF IsNode(obj) THEN "hoverNode"
                                            ELSE "hoverEdge",
                                            obj, {}, {}, NoPrev, <<>>)>>]
    ELSE [h EXCEPT !.changed = FALSE]

\* _hoverConnectedEdges(node): body.nodes is an object keyed by id, so its
\* length is undefined and the loop over i < body.nodes.length has no
\* iteration; the loop over node.edges flags every attached edge
RECURSIVE hoverEdgeList(_, _, _)
hoverEdgeList(h, es, i) ==
    IF i > Len(es) THEN h
    ELSE hoverEdgeList(addToHover([h EXCEPT !.hover = @ \cup {es[i]}], es[i]),
                       es, i + 1)

\* node.edges as an array, in body.edgeIndices order
nodeEdgeList(n) == SelectSeq(edgeIndices, LAMBDA e : e \in nodeEdges(n))

hoverConnectedEdges(h, node) == hoverEdgeList(h, nodeEdgeList(node), 1)

\* the loop over hoverObj.nodes that drops the nodes without emitBlurEvent
RECURSIVE blurNodesSilent(_, _, _, _)
blurNodesSilent(h, object, q, i) ==
    IF i > Len(q) THEN h
    ELSE IF object = Undefined
            \/ (IsNode(object) /\ object # q[i])
            \/ IsEdge(object)
         THEN blurNodesSilent([h EXCEPT !.hover = @ \ {q[i]},
                                        !.nodes = removeKey(@, q[i]),
                                        !.changed = TRUE],
                              object, q, i + 1)
         ELSE blurNodesSilent(h, object, q, i + 1)

\* the for-in loop over hoverObj.nodes, over the keys q from index i on
RECURSIVE blurNodes(_, _, _, _)
blurNodes(h, object, q, i) ==
    IF i > Len(q) THEN h
    ELSE IF object = Undefined
            \/ (IsNode(object) /\ object # q[i])
            \/ IsEdge(object)
         THEN LET h1 == emitBlurEvent(h, q[i])
              IN  blurNodes([h1 EXCEPT !.nodes = removeKey(@, q[i]),
                                       !.changed = TRUE],
                            object, q, i + 1)
         ELSE blurNodes(h, object, q, i + 1)

\* the for-in loop over hoverObj.edges, over the keys q from index i on
RECURSIVE blurEdges(_, _, _, _)
blurEdges(h, object, q, i) ==
    IF i > Len(q) THEN h
    ELSE IF h.changed = TRUE
         THEN blurEdges([h EXCEPT !.hover = @ \ {q[i]},
                                  !.edges = removeKey(@, q[i])],
                        object, q, i + 1)
         ELSE IF object = Undefined
                 \/ (IsEdge(object) /\ object # q[i])
                 \/ (IsNode(object) /\ object \notin h.hover)
              THEN LET h1 == emitBlurEvent(h, q[i])
                   IN  blurEdges([h1 EXCEPT !.edges = removeKey(@, q[i]),
                                            !.changed = TRUE],
                                 object, q, i + 1)
              ELSE blurEdges(h, object, q, i + 1)

\* find_subordinate_nodes(node_id) at nesting depth d: what it pushes onto
\* a traversal that collects the nodes one step down and goes no further
findSubordinateNodesOneStep(node_id, d) ==
    IF node_id \in NodeIds /\ level(node_id) # 0
    THEN LET es == SelectSeq(edgeIndices, LAMBDA e : toId(e) = node_id)
             F[i \in 0..Len(es)] ==
                 IF i = 0 THEN <<>>
                 ELSE F[i - 1] \o <<fromId(es[i]), eventualId(es[i])>>
         IN  [list |-> F[Len(es)], overflow |-> FALSE]
    ELSE [list |-> <<>>, overflow |-> FALSE]

\* a traversal that calls itself on the node it was given
RECURSIVE findSubordinateNodesSelf(_, _)
findSubordinateNodesSelf(node_id, d) ==
    IF d > MaxDepth THEN [list |-> <<>>, overflow |-> TRUE]
    ELSE IF node_id \in NodeIds /\ level(node_id) # 0
         THEN findSubordinateNodesSelf(node_id, d + 1)
         ELSE [list |-> <<>>, overflow |-> FALSE]

\* subordinate_nodes, and whether the nesting outgrew the call stack
RECURSIVE findSubordinateNodes(_, _)
RECURSIVE subordinatesOfEdges(_, _, _)
findSubordinateNodes(node_id, d) ==
    IF d > MaxDepth THEN [list |-> <<>>, overflow |-> TRUE]
    ELSE IF node_id \in NodeIds /\ level(node_id) # 0
         THEN subordinatesOfEdges(
                  SelectSeq(edgeIndices, LAMBDA e : toId(e) = node_id), 1, d)
         ELSE [list |-> <<>>, overflow |-> FALSE]

subordinatesOfEdges(es, i, d) ==
    IF i > Len(es) THEN [list |-> <<>>, overflow |-> FALSE]
    ELSE LET edge == es[i]
             r1   == findSubordinateNodes(fromId(edge), d + 1)
             r2   == findSubordinateNodes(eventualId(edge), d + 1)
             rest == subordinatesOfEdges(es, i + 1, d)
         IN  [list |-> <<fromId(edge), eventualId(edge)>> \o r1.list
                       \o r2.list \o rest.list,
              overflow |-> r1.overflow \/ r2.overflow \/ rest.overflow]

\* the loop that hovers the subordinate nodes, from index i on
RECURSIVE hoverSubordinates(_, _, _)
hoverSubordinates(h, ids, i) ==
    IF i > Len(ids) THEN h
    ELSE IF ids[i] \in NodeIds
         THEN hoverSubordinates(emitHoverEvent(h, ids[i]), ids, i + 1)
         ELSE hoverSubordinates(h, ids, i + 1)

\* the end of hoverObject: the redraw request
hoverTail(h) == IF h.changed = TRUE THEN [h EXCEPT !.log = @ \o <<Redraw>>]
                ELSE h

\* the first step of hoverObject that forgets the chain without telling
unhoverChainSilent(h, object, last) ==
    IF object = Undefined /\ Len(last) > 0
    THEN [h |-> h, last |-> <<>>]
    ELSE [h |-> h, last |-> last]

\* the first step of hoverObject: nothing is hit and a chain was hovered;
\* the result is h and this.lastHoveredNodes
unhoverChain(h, object, last) ==
    IF object = Undefined /\ Len(last) > 0
    THEN [h |-> [h EXCEPT !.log = @ \o <<Emit("hoveredNodes", Undefined,
                                              {}, {}, NoPrev, <<>>)>>],
          last |-> <<>>]
    ELSE [h |-> h, last |-> last]

\* hoverObject up to its await (or to its end, when it does not await)
hoverObjectDo(flags, hobj, last, opts, dragging, wasDragging, p) ==
    LET object == objectAt(p)
        h0 == [hover |-> flags, nodes |-> hobj.nodes, edges |-> hobj.edges,
               log |-> objectAtCalls(p), changed |-> FALSE]
        u  == unhoverChain(h0, object, last)
        h1 == u.h
        h2 == blurNodes(h1, object, h1.nodes, 1)
        h3 == blurEdges(h2, object, h2.edges, 1)
        newOnlyHovered == Len(h3.edges) = 0 /\ Len(h3.nodes) = 0
        h4 == IF object # Undefined /\ (h3.changed \/ newOnlyHovered)
              THEN IF IsEdge(object) THEN emitHoverEvent(h3, object)
                   ELSE IF ~isLabelNode(object)
                        THEN emitHoverEvent(h3, object)
                        ELSE h3
              ELSE h3
        h5 == IF object # Undefined /\ IsNode(object)
                 /\ opts.hoverConnectedEdges = TRUE
              THEN hoverConnectedEdges(h4, object)
              ELSE h4
        awaits == /\ object # Undefined
                  /\ \/ IsNode(object) /\ dragging \in {"undefined", "false"}
                     \/ wasDragging = "true" /\ dragging = "false"
        sub == findSubordinateNodes(object, 1)
    IN  [h |-> IF awaits THEN h5 ELSE hoverTail(h5),
         last |-> u.last,
         awaits |-> awaits,
         object |-> object,
         sub |-> IF awaits THEN sub.list ELSE <<>>,
         overflow |-> awaits /\ sub.overflow]

\* hoverObject(event, pointer): runs to its await; a call that awaits leaves
\* its continuation in `pending`, one whose recursion overflows the stack
\* rejects instead
hoverObject ==
    \E p \in Pointers :
        \E r \in {hoverObjectDo(hover, hoverObj, lastHoveredNodes, options,
                              isUserDragging, wasUserDragging, p)} :
            /\ (r.awaits /\ ~r.overflow => Len(pending) < MaxPending)
            /\ hover' = r.h.hover
            /\ hoverObj' = [nodes |-> r.h.nodes, edges |-> r.h.edges]
            /\ lastHoveredNodes' = r.last
            /\ log' = r.h.log
            /\ pending' = IF r.awaits /\ ~r.overflow
                          THEN Append(pending,
                                      [object |-> r.object, sub |-> r.sub])
                          ELSE pending
            /\ wasUserDragging' = IF r.awaits THEN wasUserDragging
                                  ELSE isUserDragging
            /\ lastOp' = "hoverObject"
            /\ told' = Heard(told, log')
            /\ thrown' = IF r.overflow THEN "RangeError" ELSE "none"
            /\ hit' = hitOf(p)
            /\ UNCHANGED <<body, acc, selected, options, isUserDragging>>

\* the rest of hoverObject after its await, run from the microtask queue
hoverResumeDo(flags, hobj, c) ==
    LET h0 == [hover |-> flags, nodes |-> hobj.nodes, edges |-> hobj.edges,
               log |-> <<>>, changed |-> FALSE]
        h1 == hoverSubordinates(h0, c.sub, 1)
        subordinate_nodes == Append(c.sub, c.object)
        h2 == [h1 EXCEPT !.changed = TRUE,
                         !.log = @ \o <<Emit("hoveredNodes", Undefined, {}, {},
                                             NoPrev, subordinate_nodes)>>]
    IN  [h |-> hoverTail(h2), last |-> subordinate_nodes]

hoverResume ==
    /\ pending # <<>>
    /\ \E r \in {hoverResumeDo(hover, hoverObj, Head(pending))} :
           /\ hover' = r.h.hover
           /\ hoverObj' = [nodes |-> r.h.nodes, edges |-> r.h.edges]
           /\ lastHoveredNodes' = r.last
           /\ log' = r.h.log
    /\ pending' = Tail(pending)
    /\ wasUserDragging' = isUserDragging
    /\ lastOp' = "hoverResume"
    /\ told' = Heard(told, log')
    /\ thrown' = "none"
    /\ hit' = NoHit
    /\ UNCHANGED <<body, acc, selected, options, isUserDragging>>

\* the page sets window.isUserDragging
setUserDragging ==
    \E v \in OptBool :
        /\ isUserDragging # v
        /\ isUserDragging' = v
        /\ log' = <<>>
        /\ lastOp' = "setUserDragging"
        /\ told' = Heard(told, log')
        /\ thrown' = "none"
        /\ hit' = NoHit
        /\ UNCHANGED <<body, acc, selected, options, hover, hoverObj,
                       lastHoveredNodes, wasUserDragging, pending>>

\* setOptions({hoverConnectedEdges: v})
setHoverOptions == setOptionsIn({"hoverConnectedEdges"})

-----------------------------------------------------------------------------
(* Specifications *)

\* the pointer handlers of the selection, with the commits and the options
PointNext ==
    \/ setOptions
    \/ selectOnPoint
    \/ selectAdditionalOnPoint
    \/ unselectAllOp
    \/ commitWithoutEmitting
    \/ commitAndEmit
    \/ clickEvent

\* the programmatic selection, with the commits and the options
SetNext ==
    \/ setEdgeOptions
    \/ unselectAllOp
    \/ commitWithoutEmitting
    \/ commitAndEmit
    \/ setSelection
    \/ selectNodes
    \/ selectEdges

\* every handler that touches the selection, under the default options
AllNext ==
    \/ selectOnPoint
    \/ selectAdditionalOnPoint
    \/ unselectAllOp
    \/ commitWithoutEmitting
    \/ commitAndEmit
    \/ clickEvent
    \/ setSelection
    \/ selectNodes
    \/ selectEdges

\* the three handlers that hit-test the pointer
HitNext ==
    \/ selectOnPoint
    \/ selectAdditionalOnPoint
    \/ commitWithoutEmitting
    \/ hoverObject
    \/ hoverResume

\* the hover handlers
HoverNext ==
    \/ hoverObject
    \/ hoverResume
    \/ setUserDragging
    \/ setHoverOptions

SpecSel == InitWith(TwinBody) /\ [][PointNext]_vars

SpecSet == InitWith(TinyBody) /\ [][SetNext]_vars

SpecAll == InitWith(TinyBody) /\ [][AllNext]_vars

SpecHit == InitWith(TinyBody) /\ [][HitNext]_vars

SpecHover == InitWith(ChainBody) /\ [][HoverNext]_vars

-----------------------------------------------------------------------------
(* Properties of commitAndEmit and selectOnPoint (checked under SpecSel)   *)

\* the kinds of the log entries, in order
Types(l) == [i \in 1..Len(l) |-> l[i].type]

\* the selection events a commit must emit, given the committed sets before
\* (b) and after (a) it
ExpectedSelectionEvents(b, a) ==
    LET four == (IF b.prevEdges \ a.prevEdges # {}
                 THEN <<"deselectEdge">> ELSE <<>>)
                \o (IF b.prevNodes \ a.prevNodes # {}
                    THEN <<"deselectNode">> ELSE <<>>)
                \o (IF a.prevNodes \ b.prevNodes # {}
                    THEN <<"selectNode">> ELSE <<>>)
                \o (IF a.prevEdges \ b.prevEdges # {}
                    THEN <<"selectEdge">> ELSE <<>>)
    IN  IF four # <<>> THEN four \o <<"select">> ELSE <<>>

\* C1: every commitAndEmit emits exactly the events its diff calls for, in
\* the order deselectEdge, deselectNode, selectNode, selectEdge, select:
\* each of the first four iff the commit dropped / added an edge / a node,
\* select last iff one of them was emitted, and nothing for an empty diff.
C1_CommitEventOrder ==
    [][lastOp' = "commitAndEmit"
       => Types(Events(log')) = ExpectedSelectionEvents(acc, acc')]_vars

\* a commit that emitted all five events
C1_Witness ==
    /\ lastOp = "commitAndEmit"
    /\ Types(Events(log)) = <<"deselectEdge", "deselectNode", "selectNode",
                              "selectEdge", "select">>

\* the log holds a deselectNode event whose previous selection has nodes ns
HasDeselectNode(l, ns) ==
    \E i \in 1..Len(l) :
        /\ l[i].kind = "emit"
        /\ l[i].type = "deselectNode"
        /\ l[i].prev # NoPrev
        /\ l[i].prev[1].nodes = ns

\* the step commits right after a selectOnPoint that hit nothing
CommitAfterMiss ==
    /\ lastOp = "selectOnPoint"
    /\ hit = NoHit
    /\ lastOp' = "commitAndEmit"

\* C2 as stated: with node A selected and committed, selectOnPoint on empty
\* canvas followed by commitAndEmit emits deselectNode with
\* previousSelection.nodes = [A] and leaves getSelection().nodes empty.
C2_Original ==
    [][CommitAfterMiss
       => \A A \in NodeIds :
            acc.prevNodes = {A}
            => /\ HasDeselectNode(log', {A})
               /\ getSelection(acc').nodes = {}]_vars

\* C2 amended: the same, provided options.selectable is true.
C2_DeselectOnEmptyClick ==
    [][CommitAfterMiss /\ options.selectable = TRUE
       => \A A \in NodeIds :
            acc.prevNodes = {A}
            => /\ HasDeselectNode(log', {A})
               /\ getSelection(acc').nodes = {}]_vars

\* a commit after a click on empty canvas reported the deselection of n1
C2_Witness ==
    /\ lastOp = "commitAndEmit"
    /\ HasDeselectNode(log, {"n1"})
    /\ Types(Events(log)) = <<"deselectNode", "select">>
    /\ getSelection(acc).nodes = {}

\* the steps a selectOnPoint that hits obj (node first, edge as fallback)
\* takes when it unselects before it hit-tests
StepsUnselectFirst(node, edge) ==
    <<"unselectAll", "getNodeAt">>
    \o (IF node = Undefined THEN <<"getEdgeAt">> ELSE <<>>)
    \o (IF node # Undefined \/ edge # Undefined
        THEN <<"selectObject", "selectedNodes">> ELSE <<>>)
    \o <<"_requestRedraw">>

\* the steps when it hit-tests before it unselects
StepsHitTestFirst(node, edge) ==
    <<"getNodeAt">>
    \o (IF node = Undefined THEN <<"getEdgeAt">> ELSE <<>>)
    \o <<"unselectAll">>
    \o (IF node # Undefined \/ edge # Undefined
        THEN <<"selectObject", "selectedNodes">> ELSE <<>>)
    \o <<"_requestRedraw">>

\* C3 as stated: every selectOnPoint, for every option setting, unselects
\* everything, then hit-tests, then selects the hit if any, then requests a
\* redraw.
C3_Original ==
    lastOp = "selectOnPoint"
    => Types(log) = StepsUnselectFirst(hit.node, hit.edge)

\* C3 amended: with options.selectable true, selectOnPoint hit-tests (node
\* first, edge as fallback), then unselects everything, then selects the
\* hit if any, then requests a redraw; otherwise it does nothing.
C3_SelectOnPointSteps ==
    lastOp = "selectOnPoint"
    => IF options.selectable = TRUE
       THEN /\ Types(log) = StepsHitTestFirst(hit.node, hit.edge)
            /\ \A i \in 1..Len(log) :
                 log[i].type = "selectObject"
                 => log[i].id = (IF hit.node # Undefined THEN hit.node
                                 ELSE hit.edge)
            /\ acc.nodes \cup acc.edges # {}
               <=> (hit.node # Undefined \/ hit.edge # Undefined)
       ELSE log = <<>>

\* a selectOnPoint that fell back to an edge, over a committed selection
C3_Witness ==
    /\ lastOp = "selectOnPoint"
    /\ options.selectable = TRUE
    /\ hit.node = Undefined
    /\ hit.edge = "e2"
    /\ acc.prevNodes # {}
    /\ acc.edges = {"e2"}
    /\ acc.nodes = {}

\* C6: every event of commitAndEmit carries the selection as it is after
\* the commit; deselectEdge and deselectNode also carry the selection
\* committed before it as previousSelection, the select events carry none;
\* an event generated with emptySelection = true carries empty arrays.
C6_EventPayloads ==
    [][/\ lastOp' = "commitAndEmit"
          => \A i \in 1..Len(log') :
               log'[i].kind = "emit"
               => /\ log'[i].nodes = getSelection(acc').nodes
                  /\ log'[i].edges = getSelection(acc').edges
                  /\ log'[i].type \in {"deselectEdge", "deselectNode"}
                     => log'[i].prev = Prev(acc.prevNodes, acc.prevEdges)
                  /\ log'[i].type \in {"selectNode", "selectEdge", "select"}
                     => log'[i].prev = NoPrev
       /\ lastOp' = "clickEmpty"
          => /\ Len(log') = 1
             /\ log'[1].nodes = {}
             /\ log'[1].edges = {}
       /\ lastOp' = "click"
          => /\ Len(log') = 1
             /\ log'[1].nodes = getSelection(acc).nodes
             /\ log'[1].edges = getSelection(acc).edges]_vars

\* a commit that replaced one selection by another
C6_Witness ==
    /\ lastOp = "commitAndEmit"
    /\ \E i \in 1..Len(log) :
         /\ log[i].type = "deselectNode"
         /\ log[i].prev # NoPrev
         /\ log[i].prev[1].nodes # {}
         /\ log[i].prev[1].nodes # log[i].nodes
         /\ log[i].nodes # {}

-----------------------------------------------------------------------------
(* Properties of setSelection, selectNodes and selectEdges (SpecSet)       *)

\* some id listed in the selection argument is no key of the network
UnknownListed(sel) ==
    \/ sel.hasNodes /\ \E i \in 1..Len(sel.nodes) : sel.nodes[i] \notin NodeIds
    \/ sel.hasEdges /\ \E i \in 1..Len(sel.edges) : sel.edges[i] \notin EdgeIds

\* C4: every setSelection call that lists an id of no existing node / edge
\* throws the unknown-id error (RangeError) and leaves the committed
\* selection, and the selected flags that follow it, as they were.
C4_UnknownIdKeepsCommitted ==
    \A sel \in SelectionArgs, u \in OptBool, h \in OptBool :
        UnknownListed(sel)
        => LET r == setSelectionDo(acc, selected, options, TRUE, sel, u, h)
           IN  /\ r.thrown = "RangeError"
               /\ r.acc.prevNodes = acc.prevNodes
               /\ r.acc.prevEdges = acc.prevEdges
               /\ r.selected = selected

\* a setSelection failed on an unknown id over a committed selection, which
\* it kept although it had already changed the pending one
C4_Witness ==
    /\ lastOp = "setSelection"
    /\ thrown = "RangeError"
    /\ acc.prevNodes = {"n1"}
    /\ acc.prevEdges = {"e1"}
    /\ acc.nodes = {}
    /\ acc.edges = {"e1"}
    /\ selected = {"n1", "e1"}

\* what a rejected call returns: nothing changed, nothing logged
Rejected(r, error) ==
    /\ r.thrown = error
    /\ r.acc = acc
    /\ r.selected = selected
    /\ r.log = <<>>

\* C5: a malformed argument is rejected before anything is mutated:
\* setSelection without a nodes and an edges property (or without an
\* argument) throws TypeError, selectNodes / selectEdges with a missing or
\* length-less argument throw, and the selection (committed and pending),
\* the flags, the hover state and the event stream stay as they were.
C5_MalformedRejected ==
    /\ [](/\ \A u \in OptBool, h \in OptBool :
               /\ Rejected(setSelectionDo(acc, selected, options, FALSE,
                                          NoSelection, u, h), "TypeError")
               /\ Rejected(setSelectionDo(acc, selected, options, TRUE,
                                          NoSelection, u, h), "TypeError")
          /\ \A kind \in ArrayArgKinds \ {"array"} :
               /\ \A h \in OptBool :
                    Rejected(selectNodesDo(acc, selected, options, kind,
                                           <<>>, h), "string")
               /\ Rejected(selectEdgesDo(acc, selected, options, kind, <<>>),
                           "string"))
    /\ [][thrown' \in {"TypeError", "string"}
          => /\ UNCHANGED <<acc, selected, options, hover, hoverObj,
                            lastHoveredNodes, pending>>
             /\ log' = <<>>]_vars

\* selectNodes rejected its argument over a selection with pending changes
C5_Witness ==
    /\ lastOp = "selectNodes"
    /\ thrown = "string"
    /\ acc.prevNodes # {}
    /\ acc.nodes # acc.prevNodes

-----------------------------------------------------------------------------
(* Properties over every selection handler (SpecAll)                       *)

\* the last handler ended with a commit()
JustCommitted ==
    \/ lastOp \in {"commitAndEmit", "commitWithoutEmitting"}
    \/ lastOp \in {"setSelection", "selectNodes", "selectEdges"}
       /\ thrown = "none"

\* C7: selection change events come from a commit's diff only and never
\* fire twice for one change: no handler but commitAndEmit emits
\* selectNode, selectEdge, deselectNode, deselectEdge or select, and a
\* commitAndEmit that directly follows a commit emits nothing.
C7_EventsOnlyFromCommit ==
    [][/\ lastOp' # "commitAndEmit" => SelectionEvents(log') = <<>>
       /\ JustCommitted /\ lastOp' = "commitAndEmit"
          => Events(log') = <<>>]_vars

\* a setSelection committed a new selection and emitted no selection event
C7_Witness ==
    /\ lastOp = "setSelection"
    /\ thrown = "none"
    /\ acc.prevNodes = {"n1"}
    /\ acc.prevEdges = {"e1"}
    /\ SelectionEvents(log) = <<>>
    /\ Events(log) # <<>>

\* C9: commit() returns previous = the committed set before the commit,
\* added = the new committed set minus previous, deleted = previous minus
\* the new committed set, and only a commit() changes the committed sets:
\* a step changes them only if its handler committed, and then they become
\* the pending sets; add, delete and clear change the pending sets only.
C9_CommitDiff ==
    [][/\ LET c == changes(acc)
              n == commit(acc)
          IN  /\ c.nodes.previous = acc.prevNodes
              /\ c.edges.previous = acc.prevEdges
              /\ c.nodes.added = n.prevNodes \ acc.prevNodes
              /\ c.nodes.deleted = acc.prevNodes \ n.prevNodes
              /\ c.edges.added = n.prevEdges \ acc.prevEdges
              /\ c.edges.deleted = acc.prevEdges \ n.prevEdges
              /\ n.prevNodes = acc.nodes
              /\ n.prevEdges = acc.edges
       /\ (acc'.prevNodes # acc.prevNodes \/ acc'.prevEdges # acc.prevEdges)
          => /\ lastOp' \in {"commitAndEmit", "commitWithoutEmitting",
                             "setSelection", "selectNodes", "selectEdges"}
             /\ thrown' = "none"
             /\ acc'.prevNodes = acc'.nodes
             /\ acc'.prevEdges = acc'.edges
       /\ lastOp' \in {"commitAndEmit", "commitWithoutEmitting"}
          => acc' = commit(acc)
       /\ lastOp' = "commitAndEmit"
          => \A i \in 1..Len(log') :
               log'[i].prev # NoPrev
               => log'[i].prev = Prev(acc.prevNodes, acc.prevEdges)]_vars

\* unselectAll emptied the pending selection and left the committed one
C9_Witness ==
    /\ lastOp = "unselectAll"
    /\ acc.nodes = {}
    /\ acc.edges = {}
    /\ acc.prevNodes = {"n1"}
    /\ acc.prevEdges = {"e1"}

-----------------------------------------------------------------------------
(* Properties of the hit test of the pointer handlers (SpecHit)            *)

\* the objects the last handler selected, deselected or hovered
ActedOn ==
    {log[i].id : i \in {j \in 1..Len(log) :
                          log[j].type \in {"selectObject", "deselectObject",
                                           "hoverNode", "hoverEdge"}}}

\* C10: node hits take priority over edge hits.  Whenever a node overlaps
\* the pointer, selectOnPoint, selectAdditionalOnPoint and hoverObject act
\* on the node getNodeAt returns, however many edges are within tolerance,
\* and getEdgeAt is consulted only when no node overlaps.
C10_NodeBeforeEdge ==
    /\ \A p \in Pointers :
         /\ p.ov # {} => objectAt(p) = getNodeAt(p) /\ objectAt(p) \in p.ov
         /\ p.ov = {} => objectAt(p) = getEdgeAt(p)
    /\ lastOp \in {"selectOnPoint", "selectAdditionalOnPoint", "hoverObject"}
       /\ hit.node # Undefined
       => /\ \A i \in 1..Len(log) : log[i].type # "getEdgeAt"
          /\ \A i \in 1..Len(log) :
               log[i].type \in {"selectObject", "deselectObject",
                                "hoverNode", "hoverEdge"}
               => log[i].id = hit.node
          /\ lastOp # "hoverObject" => ActedOn = {hit.node}
          /\ lastOp = "hoverObject" /\ thrown = "none" /\ pending # <<>>
             => pending[Len(pending)].object = hit.node
    /\ lastOp \in {"selectOnPoint", "selectAdditionalOnPoint", "hoverObject"}
       /\ hit.node = Undefined
       => \E i \in 1..Len(log) :
            log[i].type = "getEdgeAt" /\ log[i].id = hit.edge

\* a node was selected, and one hovered, under a pointer that was also
\* within tolerance of an edge
C10_Witness ==
    /\ hit.node = "n1"
    /\ hit.edge = "e1"
    /\ \/ lastOp = "selectOnPoint" /\ acc.nodes = {"n1"} /\ hover # {}
       \/ lastOp = "hoverObject" /\ "n1" \in hover /\ acc.nodes # {}

-----------------------------------------------------------------------------
(* The two hit tests on their own (SpecProbe): any render order, any       *)
(* iteration order of the edges, connected and unconnected edges.          *)

\* canvas positions of a pointer (what canvas.DOMtoCanvas answers)
CanvasPositions == [x : 1..3, y : 1..3]

\* _pointerToPositionObject(pointer)
pointerToPositionObject(canvasPos) ==
    [left |-> canvasPos.x - 1, top |-> canvasPos.y + 1,
     right |-> canvasPos.x + 1, bottom |-> canvasPos.y - 1]

\* distances getDistanceToEdge may answer: two below the tolerance, the
\* tolerance itself and one above it
ProbeDists == {8, 9, 10, 11}

\* the orders in which an index array may list the ids S
Orders(S) ==
    {q \in [1..Cardinality(S) -> S] : \A x \in S : \E i \in DOMAIN q : q[i] = x}

\* networks of three nodes and three edges, in every order of
\* body.nodeIndices and body.edgeIndices, each edge connected or not
ProbeBodies ==
    {[nodeIndices |-> ni,
      edgeIndices |-> ei,
      nodes |-> [n \in {"n1", "n2", "n3"} |-> NodeOf(0, FALSE, Undefined)],
      edges |-> [e \in {"e1", "e2", "e3"} |->
                   [Edge("n1", "n2", Undefined) EXCEPT !.connected = e \in con]]] :
        ni \in Orders({"n1", "n2", "n3"}),
        ei \in Orders({"e1", "e2", "e3"}),
        con \in SUBSET {"e1", "e2", "e3"}}

\* the mark a direct hit test leaves: its answer, the nodes that overlap
\* the probe rectangle and the distance of each edge of body.edgeIndices
ProbeMark(name, result, ov, dists) ==
    [kind |-> "call", type |-> name, id |-> result, nodes |-> ov,
     edges |-> {}, prev |-> NoPrev, list |-> dists]

\* getNodeAt(pointer), called on its own
probeNodeAt ==
    \E ov \in SUBSET NodeIds :
        /\ hit' = [node |-> getNodeAt([ov |-> ov]), edge |-> Undefined]
        /\ log' = <<ProbeMark("getNodeAt", getNodeAt([ov |-> ov]), ov, <<>>)>>
        /\ lastOp' = "getNodeAt"
        /\ told' = Heard(told, log')
        /\ thrown' = "none"
        /\ UNCHANGED <<acc, selected, options>>
        /\ UNCHANGED hoverVars

\* getEdgeAt(pointer), called on its own
probeEdgeAt ==
    \E d \in [EdgeIds -> ProbeDists] :
        /\ hit' = [node |-> Undefined, edge |-> getEdgeAt([dist |-> d])]
        /\ log' = <<ProbeMark("getEdgeAt", getEdgeAt([dist |-> d]), {},
                              [i \in 1..Len(edgeIndices) |-> d[edgeIndices[i]]])>>
        /\ lastOp' = "getEdgeAt"
        /\ told' = Heard(told, log')
        /\ thrown' = "none"
        /\ UNCHANGED <<acc, selected, options>>
        /\ UNCHANGED hoverVars

ProbeNext ==
    \/ probeNodeAt
    \/ probeEdgeAt

SpecProbe == (\E b \in ProbeBodies : InitWith(b)) /\ [][ProbeNext]_vars

\* the place of an id in an index array
PlaceIn(q, x) == CHOOSE i \in DOMAIN q : q[i] = x

\* C11: getNodeAt probes the 2x2 rectangle centred on the pointer's canvas
\* position and answers, of the nodes overlapping it, the one that is last
\* in body.nodeIndices; it answers undefined exactly when none overlaps.
C11_LastOverlappingNode ==
    /\ \A c \in CanvasPositions :
         LET r == pointerToPositionObject(c)
         IN  /\ r.right - r.left = 2
             /\ r.top - r.bottom = 2
             /\ r.left + r.right = 2 * c.x
             /\ r.top + r.bottom = 2 * c.y
    /\ \A ov \in SUBSET NodeIds :
         LET r == getNodeAt([ov |-> ov])
         IN  /\ (r = Undefined) <=> (ov = {})
             /\ ov # {}
                => /\ r \in ov
                   /\ \A n \in ov : PlaceIn(nodeIndices, n) <= PlaceIn(nodeIndices, r)
    /\ lastOp = "getNodeAt"
       => /\ hit.node = log[1].id
          /\ (hit.node = Undefined) <=> (log[1].nodes = {})
          /\ \A n \in log[1].nodes :
               PlaceIn(nodeIndices, n) <= PlaceIn(nodeIndices, hit.node)

\* all three nodes overlapped and the answer was n1, drawn last but first
\* by id
C11_Witness ==
    /\ lastOp = "getNodeAt"
    /\ nodeIndices = <<"n3", "n2", "n1">>
    /\ log[1].nodes = {"n1", "n2", "n3"}
    /\ hit.node = "n1"

\* the connected edges
ConnectedEdges == {e \in EdgeIds : connected(e)}

\* C12: getEdgeAt answers the connected edge of least distance if that
\* distance is strictly below 10, the first such edge of body.edgeIndices
\* on a tie; it answers undefined when no connected edge is closer than 10
\* (9 hits, 10 and 11 do not), and never an unconnected edge.
C12_NearestConnectedEdge ==
    /\ \A d \in [EdgeIds -> ProbeDists] :
         LET r == getEdgeAt([dist |-> d])
             within == {e \in ConnectedEdges : d[e] < 10}
         IN  /\ (r = Undefined) <=> (within = {})
             /\ within # {}
                => /\ r \in within
                   /\ \A e \in ConnectedEdges :
                        /\ d[r] <= d[e]
                        /\ d[e] = d[r]
                           => PlaceIn(edgeIndices, r) <= PlaceIn(edgeIndices, e)
    /\ lastOp = "getEdgeAt"
       => /\ hit.edge = log[1].id
          /\ hit.edge # Undefined
             => /\ connected(hit.edge)
                /\ log[1].list[PlaceIn(edgeIndices, hit.edge)] < 10
                /\ \A i \in 1..Len(edgeIndices) :
                     connected(edgeIndices[i])
                     => /\ log[1].list[PlaceIn(edgeIndices, hit.edge)]
                           <= log[1].list[i]
                        /\ log[1].list[i]
                             = log[1].list[PlaceIn(edgeIndices, hit.edge)]
                           => PlaceIn(edgeIndices, hit.edge) <= i
          /\ hit.edge = Undefined
             => \A i \in 1..Len(edgeIndices) :
                  connected(edgeIndices[i]) => log[1].list[i] >= 10

\* an unconnected edge at 8 came first, then two connected edges tied at 9:
\* the answer was the first of the two
C12_Witness ==
    /\ lastOp = "getEdgeAt"
    /\ edgeIndices = <<"e3", "e2", "e1">>
    /\ ConnectedEdges = {"e1", "e2"}
    /\ log[1].list = <<8, 9, 9>>
    /\ hit.edge = "e2"

-----------------------------------------------------------------------------
(* Properties of the hover pass (SpecHop, SpecFan)                         *)

\* the hover handlers on the one-hop hierarchy
SpecHop == InitWith(HopBody) /\ [][HoverNext]_vars

\* the hover handlers on the node with its label node
SpecFan == InitWith(FanBody) /\ [][HoverNext]_vars

\* the hoveredNodes events of a log
HoveredNodesEvents(l) ==
    SelectSeq(l, LAMBDA x : x.kind = "emit" /\ x.type = "hoveredNodes")

\* the edges whose `to` endpoint is n
EdgesInto(n) == {e \in EdgeIds : toId(e) = n}

\* n is a level-2 node with a single edge into it, whose other endpoints
\* are at level 0
OneHop(n) ==
    /\ n \in NodeIds
    /\ level(n) = 2
    /\ Cardinality(EdgesInto(n)) = 1
    /\ \A e \in EdgesInto(n) :
         /\ level(fromId(e)) = 0
         /\ eventualId(e) # Undefined => level(eventualId(e)) = 0

\* the intermediate node(s) of a one-hop node, then the node itself
OneHopChain(n) ==
    LET e == CHOOSE x \in EdgesInto(n) : TRUE
    IN  <<fromId(e)>>
        \o (IF eventualId(e) # Undefined THEN <<eventualId(e)>> ELSE <<>>)
        \o <<n>>

\* C13 (as stated): the pass that hovers node N emits one hoveredNodes
\* event whose payload, also kept as lastHoveredNodes, ends with N; for a
\* level-2 node with one intermediate edge down to level 0 the payload is
\* the intermediate node(s) and N, nothing else.
C13_Original ==
    lastOp = "hoverResume"
    => LET ev == HoveredNodesEvents(log)
       IN  /\ Len(ev) = 1
           /\ ev[1].list = lastHoveredNodes
           /\ Len(ev[1].list) > 0
           /\ LET N == ev[1].list[Len(ev[1].list)]
              IN  OneHop(N) => ev[1].list = OneHopChain(N)

\* the empty hoveredNodes events of a log
EmptyHoveredNodes(l) ==
    SelectSeq(HoveredNodesEvents(l), LAMBDA x : x.list = <<>>)

\* the step is a hover pass that hits nothing
MissPass == lastOp' = "hoverObject" /\ hit' = NoHit

\* C14: a hover pass that hits nothing emits one empty hoveredNodes event
\* and clears lastHoveredNodes if lastHoveredNodes was not empty, and emits
\* no hoveredNodes event if it was; so the pass that directly follows a
\* pass that hit nothing, and hits nothing itself, emits none.
C14_EmptyChainOnce ==
    [][/\ MissPass /\ lastHoveredNodes # <<>>
          => /\ Len(HoveredNodesEvents(log')) = 1
             /\ Len(EmptyHoveredNodes(log')) = 1
             /\ lastHoveredNodes' = <<>>
       /\ MissPass /\ lastHoveredNodes = <<>>
          => /\ HoveredNodesEvents(log') = <<>>
             /\ lastHoveredNodes' = <<>>
       /\ MissPass /\ lastOp = "hoverObject" /\ hit = NoHit
          => HoveredNodesEvents(log') = <<>>]_vars

\* a pass hit nothing after a chain was hovered: the empty event went out
\* and the chain is forgotten
C14_Witness ==
    /\ lastOp = "hoverObject"
    /\ hit = NoHit
    /\ Len(EmptyHoveredNodes(log)) = 1
    /\ lastHoveredNodes = <<>>
    /\ pending = <<>>

\* C15 (as stated): hoverObject runs to completion before it returns: no
\* call is left suspended with part of its pass still to come.
C15_Original == pending = <<>>

-----------------------------------------------------------------------------
(* Termination of the subordinate traversal (SpecTraverse)                 *)

\* the three nodes of the traversal networks
TraverseNodes == {"n1", "n2", "n3"}

\* the edges of a network: two or three distinct nodes each
EdgeShapes ==
    {e \in [fromId : TraverseNodes, toId : TraverseNodes,
            eventualId : TraverseNodes \cup {Undefined}, connected : {TRUE}] :
        /\ e.fromId # e.toId
        /\ e.eventualId \notin {e.fromId, e.toId}}

\* the three nodes, none of them at level 0: the traversal stops nowhere
\* but where no edge ends
TraverseLevels == [n \in TraverseNodes |-> NodeOf(1, FALSE, Undefined)]

\* the steps of the traversal in network b: from a node to the `from` and
\* `eventual` nodes of the edges that end at it
Down(b) ==
    {<<b.edges[e].toId, b.edges[e].fromId>> : e \in DOMAIN b.edges}
    \cup {<<b.edges[e].toId, b.edges[e].eventualId>> :
            e \in {x \in DOMAIN b.edges : b.edges[x].eventualId # Undefined}}

\* the pairs joined by one or two steps of R
Twice(R) ==
    R \cup {<<x[1][1], x[2][2]>> : x \in {y \in R \X R : y[1][2] = y[2][1]}}

Acyclic(b) ==
    \A n \in DOMAIN b.nodes : <<n, n>> \notin Twice(Twice(Down(b)))

\* the networks of three nodes and two edges, one of them from n2 into n1,
\* whose traversal steps form no cycle
TraverseBodies ==
    {b \in [nodeIndices : {<<"n1", "n2", "n3">>},
            edgeIndices : {<<"e1", "e2">>},
            nodes : {TraverseLevels},
            edges : {f \in [{"e1", "e2"} -> EdgeShapes] :
                        f["e1"].toId = "n1" /\ f["e1"].fromId = "n2"}] :
        Acyclic(b)}

TraverseNext == hoverObject \/ hoverResume

\* hover passes, each suspended pass being resumed from the microtask queue
SpecTraverse ==
    /\ \E b \in TraverseBodies : InitWith(b)
    /\ [][TraverseNext]_vars
    /\ WF_vars(hoverResume)

\* C16: in a network whose traversal steps form no cycle, the traversal
\* started by hovering any node ends without outgrowing the stack, the pass
\* that hit a node is suspended with its list, and every suspended pass goes
\* on to emit its hoveredNodes event.
C16_TraversalEnds ==
    /\ [](/\ Acyclic(body)
          /\ thrown # "RangeError"
          /\ \A n \in NodeIds : ~findSubordinateNodes(n, 1).overflow
          /\ lastOp = "hoverObject" /\ hit.node # Undefined
             => pending # <<>>)
    /\ (pending # <<>>)
         ~> (lastOp = "hoverResume" /\ HoveredNodesEvents(log) # <<>>)

\* a pass over the top of a two-step chain has emitted its hoveredNodes
\* event, with the nodes of both steps
C16_Witness ==
    /\ lastOp = "hoverResume"
    /\ \E ev \in Range(HoveredNodesEvents(log)) :
         /\ Len(ev.list) >= 5
         /\ ev.list[Len(ev.list)] = "n1"
         /\ {"n2", "n3"} \subseteq Range(ev.list)

-----------------------------------------------------------------------------
(* The border position of a straight edge on a round node (SpecBorder).    *)
(* Lengths are whole pixels; the parameter t is a number of 1024ths, which *)
(* ten halvings of [0, 1] never leave; distances are compared in units of  *)
(* 1/5120 pixel, in which the threshold 0.2 is 1024.                       *)

\* const maxIterations = 10
maxIterations == 10

\* const threshold = 0.2, in units of 1/5120 pixel
threshold == 1024

\* the distance between two numbers
Gap(a, b) == IF a < b THEN b - a ELSE a - b

\* the lengths of the edge, the radii of the nodes and the end-point offsets
Lengths == {1, 50, 204, 205, 1000}
Radii == {0, 10, 25}
Offsets == {0, 2}

\* a round node at (x, 0): node.distanceToBorder answers its radius at
\* every angle
RoundNode(x, radius) ==
    [level |-> 0, isLabelNode |-> FALSE, labelOfNode |-> Undefined,
     x |-> x, radius |-> radius]

\* a straight edge from n1 to n2 with its options
StraightEdge(offset, strike) ==
    [fromId |-> "n1", toId |-> "n2", eventualId |-> Undefined,
     connected |-> TRUE,
     endPointOffset |-> [from |-> offset, to |-> offset],
     arrowStrikethrough |-> strike]

\* the networks of one straight edge: n1 at x = 0, n2 at x = the length
BorderBodies ==
    {[nodeIndices |-> <<"n1", "n2">>,
      edgeIndices |-> <<"e1">>,
      nodes |-> [n \in {"n1", "n2"} |->
                   IF n = "n1" THEN RoundNode(0, rf) ELSE RoundNode(len, rt)],
      edges |-> [e \in {"e1"} |-> StraightEdge(off, strike)]] :
        len \in Lengths, rf \in Radii, rt \in Radii, off \in Offsets,
        strike \in BOOLEAN}

\* this.getPoint(middle) of a straight edge: the point of the segment
\* from -> to at t = middle / 1024, as its x in 1024ths of a pixel
getPoint(middle) ==
    1024 * body.nodes["n1"].x
    + middle * (body.nodes["n2"].x - body.nodes["n1"].x)

\* distanceToPoint of the point at `middle` from the node, in 1/5120 pixel
distanceToPoint(node, middle) ==
    5 * Gap(getPoint(middle), 1024 * body.nodes[node].x)

\* node.distanceToBorder(ctx, angle) + endPointOffset, in 1/5120 pixel
distanceToBorder(node, endPointOffset) ==
    5120 * (body.nodes[node].radius + endPointOffset)

\* the do-while that narrows towards `to` whichever node is probed
RECURSIVE bisectAsTo(_, _, _, _, _, _)
bisectAsTo(node, from, endPointOffset, low, high, iteration) ==
    LET middle == (low + high) \div 2
        dB == distanceToBorder(node, endPointOffset)
        dP == distanceToPoint(node, middle)
    IN  IF Gap(dB, dP) < threshold
        THEN [t |-> middle, iterations |-> iteration + 1, found |-> TRUE]
        ELSE IF iteration + 1 < maxIterations
             THEN IF dB < dP
                  THEN bisectAsTo(node, from, endPointOffset, middle, high,
                                  iteration + 1)
                  ELSE bisectAsTo(node, from, endPointOffset, low, middle,
                                  iteration + 1)
             ELSE [t |-> middle, iterations |-> iteration + 1,
                   found |-> FALSE]

\* the do-while of _findBorderPositionBezier from `iteration` on, low and
\* high in 1024ths: the last t, the number of midpoints tried and whether
\* the loop was left by `break`
RECURSIVE bisect(_, _, _, _, _, _)
bisect(node, from, endPointOffset, low, high, iteration) ==
    LET middle == (low + high) \div 2
        dB == distanceToBorder(node, endPointOffset)
        dP == distanceToPoint(node, middle)
        lowNext  == IF dB < dP
                    THEN (IF from = FALSE THEN middle ELSE low)
                    ELSE (IF from = FALSE THEN low ELSE middle)
        highNext == IF dB < dP
                    THEN (IF from = FALSE THEN high ELSE middle)
                    ELSE (IF from = FALSE THEN middle ELSE high)
    IN  IF Gap(dB, dP) < threshold
        THEN [t |-> middle, iterations |-> iteration + 1, found |-> TRUE]
        ELSE IF lowNext <= highNext /\ iteration + 1 < maxIterations
             THEN bisect(node, from, endPointOffset, lowNext, highNext,
                         iteration + 1)
             ELSE [t |-> middle, iterations |-> iteration + 1,
                   found |-> FALSE]

\* the endPointOffset that _findBorderPositionBezier uses for nearNode
endPointOffsetOf(nearNode) ==
    LET o == body.edges["e1"]
    IN  IF o.arrowStrikethrough = FALSE THEN 0
        ELSE IF nearNode = o.fromId THEN o.endPointOffset.from
             ELSE o.endPointOffset.to

\* _findBorderPositionBezier(nearNode, ctx)
findBorderPositionBezier(nearNode) ==
    LET from == nearNode = body.edges["e1"].fromId
        node == IF from THEN body.edges["e1"].fromId
                ELSE body.edges["e1"].toId
    IN  bisect(node, from, endPointOffsetOf(nearNode), 0, 1024, 0)

\* findBorderPosition(nearNode, ctx) of the edge, called on its own; the
\* log keeps nearNode and <<t, midpoints tried>>
findBorderPosition ==
    \E nearNode \in NodeIds :
        \E r \in {findBorderPositionBezier(nearNode)} :
            /\ log' = <<[kind |-> "call", type |-> "findBorderPosition",
                         id |-> nearNode, nodes |-> {}, edges |-> {},
                         prev |-> NoPrev, list |-> <<r.t, r.iterations>>]>>
            /\ lastOp' = "findBorderPosition"
            /\ told' = Heard(told, log')
            /\ thrown' = "none"
            /\ hit' = NoHit
            /\ UNCHANGED <<acc, selected, options>>
            /\ UNCHANGED hoverVars

BorderNext == findBorderPosition

SpecBorder == (\E b \in BorderBodies : InitWith(b)) /\ [][BorderNext]_vars

\* the length of the edge
EdgeLength == Gap(body.nodes["n1"].x, body.nodes["n2"].x)

\* the returned point is closer than the threshold to the border (moved by
\* the end-point offset in effect) of the node that was probed, and no more
\* than maxIterations midpoints were tried
BorderReached ==
    /\ log[1].list[2] <= maxIterations
    /\ Gap(distanceToPoint(log[1].id, log[1].list[1]),
           distanceToBorder(log[1].id, endPointOffsetOf(log[1].id)))
         < threshold

\* C17 (as stated): for a round node and a straight edge ending at it,
\* findBorderPosition returns within 10 iterations a point whose distance
\* from the node centre is within 0.2 of the border distance, for every
\* edge length and radius.
C17_Original ==
    lastOp = "findBorderPosition" /\ endPointOffsetOf(log[1].id) = 0
    => BorderReached

\* C17 (amended): the same, for an edge no longer than 204 and a border
\* (radius plus end-point offset in effect) no farther from the centre than
\* the other end of the edge.
C17_BorderWithinThreshold ==
    /\ lastOp = "findBorderPosition"
    /\ EdgeLength <= 204
    /\ body.nodes[log[1].id].radius + endPointOffsetOf(log[1].id)
         <= EdgeLength
    => BorderReached

\* the border of the `from` node of an edge of length 204 was found at the
\* tenth midpoint
C17_Witness ==
    /\ lastOp = "findBorderPosition"
    /\ EdgeLength = 204
    /\ log[1].id = "n1"
    /\ body.nodes["n1"].radius = 25
    /\ log[1].list[2] >= 8
    /\ BorderReached

-----------------------------------------------------------------------------
(* A click that moves the selection to a neighbour (SpecClick)             *)

ClickNext ==
    \/ selectOnPoint
    \/ commitWithoutEmitting
    \/ commitAndEmit

\* clicks and commits on the line of three nodes and on the two nodes
\* joined twice
SpecClick ==
    (\E b \in {LineBody, TwinBody} : InitWith(b)) /\ [][ClickNext]_vars

\* node A is shown selected with its edges and nothing else, a
\* selectOnPoint has just hit node B, and the step is the commitAndEmit of
\* that click
MovesSelection(A, B) ==
    /\ A # B
    /\ selected = {A} \cup nodeEdges(A)
    /\ options.selectable = TRUE
    /\ options.selectConnectedEdges = TRUE
    /\ lastOp = "selectOnPoint"
    /\ hit.node = B
    /\ lastOp' = "commitAndEmit"

\* C18: when the click that deselects A selects B, an edge E that joins A
\* and B is neither added nor deleted by the commit and stays selected;
\* deselectEdge is emitted only if A has an edge that B lacks, selectEdge
\* only if B has an edge that A lacks, so neither is when every edge of A
\* or B joins the two.
C18_SharedEdgeKeepsQuiet ==
    [][\A A, B \in NodeIds :
          MovesSelection(A, B)
          => /\ \A E \in nodeEdges(A) \cap nodeEdges(B) :
                  /\ E \notin changes(acc).edges.added
                  /\ E \notin changes(acc).edges.deleted
                  /\ E \in selected'
                  /\ E \in getSelection(acc').edges
             /\ "deselectEdge" \in Range(Types(log'))
                  => nodeEdges(A) \ nodeEdges(B) # {}
             /\ "selectEdge" \in Range(Types(log'))
                  => nodeEdges(B) \ nodeEdges(A) # {}
             /\ {"deselectNode", "selectNode", "select"} \subseteq Range(Types(log'))
             /\ selected' = {B} \cup nodeEdges(B)]_vars

\* the selection has moved between the two nodes joined by every edge
\* they have: the node events went out, and no edge event
C18_Witness ==
    /\ lastOp = "commitAndEmit"
    /\ nodeEdges("n1") = nodeEdges("n2")
    /\ nodeEdges("n1") # {}
    /\ selected = {"n2"} \cup nodeEdges("n2")
    /\ \E ev \in Range(log) :
         /\ ev.type = "deselectNode"
         /\ ev.prev = Prev({"n1"}, nodeEdges("n1"))
    /\ "selectNode" \in Range(Types(log))
    /\ Range(Types(log)) \cap {"deselectEdge", "selectEdge"} = {}

-----------------------------------------------------------------------------
(* The blur steps of the hover pass (SpecFan)                              *)

\* what a pass with hit-test result h works on: the node if one is hit,
\* else the edge
HitObject(h) == IF h.node # Undefined THEN h.node ELSE h.edge

\* the events of type t about object o in a log
EventsAbout(l, t, o) ==
    SelectSeq(l, LAMBDA x : x.kind = "emit" /\ x.type = t /\ x.id = o)

\* C19: every node of the hover node-map has its hover flag set; a hover
\* pass removes from the map each node in it that is not the newly hit
\* node, clears its flag and emits one blurNode for it; the hit node, if
\* in the map, stays there with its flag and gets no blurNode.
C19_NodesBlurred ==
    /\ [](Range(hoverObj.nodes) \subseteq hover)
    /\ [][lastOp' = "hoverObject"
          => \A n \in Range(hoverObj.nodes) :
                IF n # HitObject(hit')
                THEN /\ n \notin Range(hoverObj'.nodes)
                     /\ n \notin hover'
                     /\ Len(EventsAbout(log', "blurNode", n)) = 1
                ELSE /\ n \in Range(hoverObj'.nodes)
                     /\ n \in hover'
                     /\ EventsAbout(log', "blurNode", n) = <<>>]_vars

\* a pass over the label node n2, with n1 and n2 in the map before it, has
\* blurred n1 and kept n2
C19_Witness ==
    /\ lastOp = "hoverObject"
    /\ hit.node = "n2"
    /\ Len(EventsAbout(log, "blurNode", "n1")) = 1
    /\ EventsAbout(log, "blurNode", "n2") = <<>>
    /\ hoverObj.nodes = <<"n2">>
    /\ "n2" \in hover
    /\ "n1" \notin hover

\* the node step of a pass that hits h removes at least one node
NodeStepRemoves(h) == \E n \in Range(hoverObj.nodes) : n # HitObject(h)

\* the edge step blurs an edge e of the map when nothing is hit, or another
\* edge is, or a node whose hover flag is false
EdgeBlurDue(h, e) ==
    \/ HitObject(h) = Undefined
    \/ IsEdge(HitObject(h)) /\ HitObject(h) # e
    \/ IsNode(HitObject(h)) /\ HitObject(h) \notin hover

\* C20 (as stated): in a hover pass, for each edge of the hover edge-map:
\* if the node step removed a node, no blurEdge is emitted for the edge;
\* otherwise one blurEdge is emitted for it iff nothing is hit, or the hit
\* is another edge, or the hit is a node whose hover flag is false.
C20_Original ==
    [][lastOp' = "hoverObject"
       => \A e \in Range(hoverObj.edges) :
             IF NodeStepRemoves(hit')
             THEN EventsAbout(log', "blurEdge", e) = <<>>
             ELSE IF EdgeBlurDue(hit', e)
                  THEN Len(EventsAbout(log', "blurEdge", e)) = 1
                  ELSE /\ EventsAbout(log', "blurEdge", e) = <<>>
                       /\ e \in Range(hoverObj'.edges)
                       /\ e \in hover']_vars

-----------------------------------------------------------------------------
(* Label nodes, connected edges and the chain highlight (SpecFan, SpecHop) *)

\* C21 (as stated): no hoverNode event is ever emitted for a label node,
\* whether the node is hit itself or reached as a subordinate of the hit.
C21_Original ==
    \A i \in 1..Len(log) :
        log[i].kind = "emit" /\ log[i].type = "hoverNode"
        => ~isLabelNode(log[i].id)

\* the last step was a hoverObject that stopped at its await
Awaited ==
    /\ lastOp = "hoverObject"
    /\ thrown = "none"
    /\ HitObject(hit) # Undefined
    /\ \/ IsNode(HitObject(hit)) /\ isUserDragging \in {"undefined", "false"}
       \/ wasUserDragging = "true" /\ isUserDragging = "false"

\* the step ends a hover pass whose hit test gave h: a hoverObject that
\* does not await, or the continuation of the hoverObject just before it
PassEnds(h) ==
    \/ lastOp' = "hoverObject" /\ hit' = h /\ ~Awaited'
    \/ Awaited /\ hit = h /\ Len(pending) = 1 /\ lastOp' = "hoverResume"

\* C22 (as stated): after a hover pass that hits node N with
\* hoverConnectedEdges enabled, every edge of N is flagged and in the hover
\* edge-map, and every node of the network is flagged and in the hover
\* node-map.
C22_Original ==
    [][\A h \in {hit, hit'} :
          /\ PassEnds(h)
          /\ h.node # Undefined
          /\ options.hoverConnectedEdges = TRUE
          => /\ nodeEdges(h.node) \subseteq hover'
             /\ nodeEdges(h.node) \subseteq Range(hoverObj'.edges)
             /\ NodeIds \subseteq hover'
             /\ NodeIds \subseteq Range(hoverObj'.nodes)]_vars

\* the hoveredNodes events of a log that carry a list
ChainEvents(l) ==
    SelectSeq(HoveredNodesEvents(l), LAMBDA x : x.list # <<>>)

\* before its continuation runs, the pass on node N was not a fresh hover:
\* the chain on record is N's, N is flagged, and the pass had no hoverNode
\* to emit for N
SameNodeAgain(N) ==
    /\ lastHoveredNodes # <<>>
    /\ lastHoveredNodes[Len(lastHoveredNodes)] = N
    /\ N \in hover
    /\ EventsAbout(log, "hoverNode", N) = <<>>

\* C23 (as stated): a hover pass emits a non-empty hoveredNodes event only
\* if its hit is a node, the node was not already the hovered node of the
\* pass before, and window.isUserDragging is not true; a pass on the same
\* node again, on an edge, or during a drag emits none.
C23_Original ==
    [][\A h \in {hit, hit'} :
          PassEnds(h) /\ ChainEvents(log') # <<>>
          => /\ h.node # Undefined
             /\ isUserDragging # "true"
             /\ ~SameNodeAgain(h.node)]_vars

\* a log holds the _requestRedraw event
Redrawn(l) == \E i \in 1..Len(l) : l[i] = Redraw

\* C24 (as stated): every hover pass in which a hover flag or the contents
\* of a hover map changed emits _requestRedraw. A pass that awaits ends in
\* its continuation; one that does not is a single step.
C24_Original ==
    [][/\ lastOp' = "hoverObject" /\ ~Awaited'
          /\ \/ hover' # hover
             \/ Range(hoverObj'.nodes) # Range(hoverObj.nodes)
             \/ Range(hoverObj'.edges) # Range(hoverObj.edges)
          => Redrawn(log')
       /\ lastOp' = "hoverResume" => Redrawn(log')]_vars

-----------------------------------------------------------------------------
(* The traversal on a cyclic hierarchy (SpecCycle)                         *)

\* two nodes, each the `from` of an edge into the other, at levels 0 or 1
CycleBodies ==
    {[nodeIndices |-> <<"n1", "n2">>,
      edgeIndices |-> <<"e1", "e2">>,
      nodes |-> [n \in {"n1", "n2"} |->
                   NodeOf(IF n = "n1" THEN l1 ELSE l2, FALSE, Undefined)],
      edges |-> [e \in {"e1", "e2"} |->
                   IF e = "e1" THEN Edge("n1", "n2", Undefined)
                   ELSE Edge("n2", "n1", Undefined)]] :
        l1 \in {0, 1}, l2 \in {0, 1}}

\* hover passes and their continuations on the cyclic networks
SpecCycle == (\E b \in CycleBodies : InitWith(b)) /\ [][TraverseNext]_vars

\* the traversal steps of the network between nodes that are not at level 0
LiveDown ==
    {p \in Down(body) : \A i \in {1, 2} : p[i] \in NodeIds /\ level(p[i]) # 0}

\* n lies on a cycle of traversal steps
OnCycle(n) == <<n, n>> \in Twice(Twice(Down(body)))

\* n lies on a cycle of traversal steps none of whose nodes is at level 0
OnLiveCycle(n) == <<n, n>> \in Twice(Twice(LiveDown))

\* C25 (as stated): whenever the hovered node lies on a cycle of traversal
\* steps, the traversal never ends and the pass never emits hoveredNodes:
\* it fails in the recursion and leaves no continuation.
C25_Original ==
    [][lastOp' = "hoverObject" /\ hit'.node # Undefined
          /\ OnCycle(hit'.node)
       => /\ thrown' = "RangeError"
          /\ pending' = pending
          /\ lastHoveredNodes' = lastHoveredNodes]_vars

\* C25 (amended): the same when no node of the cycle is at level 0; when
\* the hovered node is on a cycle only through level-0 nodes the traversal
\* ends and the pass is suspended with its list.
C25_LiveCycleOverflows ==
    [][lastOp' = "hoverObject" /\ hit'.node # Undefined
       => /\ OnLiveCycle(hit'.node)
             => /\ thrown' = "RangeError"
                /\ pending' = pending
                /\ lastHoveredNodes' = lastHoveredNodes
                /\ ChainEvents(log') = <<>>
          /\ OnCycle(hit'.node) /\ ~OnLiveCycle(hit'.node)
             => /\ thrown' = "none"
                /\ pending' = Append(pending,
                                     [object |-> hit'.node,
                                      sub |-> findSubordinateNodes(
                                                  hit'.node, 1).list])]_vars

\* the pass over n1, on the cycle of n1 and n2 with neither at level 0, has
\* failed in the recursion
C25_Witness ==
    /\ lastOp = "hoverObject"
    /\ hit.node = "n1"
    /\ OnLiveCycle("n1")
    /\ thrown = "RangeError"
    /\ pending = <<>>

-----------------------------------------------------------------------------
(* The selection when the data changes (SpecData)                          *)

\* the keys that `for (const k in array)` visits for an array with the
\* elements of S: its indices, as strings
ArrayKeys(S) ==
    {k \in {"0", "1", "2", "3", "4"} :
        \E i \in 1..Cardinality(S) :
            k = <<"0", "1", "2", "3", "4">>[i]}

\* key.id for a key of the for-in loop: a string has no id
IdOfKey(k) == Undefined

\* updateSelection(): the accumulator after the two loops
updateSelectionDo(a, b) ==
    LET a1 == deleteNodes(a, {node \in ArrayKeys(getNodes(a)) :
                                 IdOfKey(node) \notin DOMAIN b.nodes})
    IN  deleteEdges(a1, {edge \in ArrayKeys(getEdges(a1)) :
                            IdOfKey(edge) \notin DOMAIN b.edges})

\* the network without node n
WithoutNode(b, n) ==
    [b EXCEPT !.nodeIndices = SelectSeq(@, LAMBDA x : x # n),
              !.nodes = [x \in DOMAIN @ \ {n} |-> @[x]]]

\* the network without edge e
WithoutEdge(b, e) ==
    [b EXCEPT !.edgeIndices = SelectSeq(@, LAMBDA x : x # e),
              !.edges = [x \in DOMAIN @ \ {e} |-> @[x]]]

\* a node or an edge is removed from the network, which emits _dataChanged,
\* whose listener runs updateSelection()
dataChanged ==
    \E b \in {WithoutNode(body, n) : n \in NodeIds}
             \cup {WithoutEdge(body, e) : e \in EdgeIds} :
        /\ body' = b
        /\ acc' = updateSelectionDo(acc, b)
        /\ log' = <<Call("updateSelection", Undefined)>>
        /\ lastOp' = "dataChanged"
        /\ told' = Heard(told, log')
        /\ thrown' = "none"
        /\ hit' = NoHit
        /\ UNCHANGED <<selected, options, hover, hoverObj, lastHoveredNodes,
                       isUserDragging, wasUserDragging, pending>>

DataNext ==
    \/ selectOnPoint
    \/ commitWithoutEmitting
    \/ dataChanged

\* clicks, commits and removals on two nodes joined by two edges
SpecData == InitWith(TwinBody) /\ [][DataNext]_vars

\* C26 (as stated): after updateSelection has run, no selected node is
\* missing from body.nodes and no selected edge from body.edges.
C26_Original ==
    lastOp = "dataChanged"
    => /\ getSelection(acc).nodes \subseteq NodeIds
       /\ getSelection(acc).edges \subseteq EdgeIds

-----------------------------------------------------------------------------
(* The bisection for any node and curve (SpecBracket): what getPoint and   *)
(* node.distanceToBorder answer is not computed but given, as the sign of  *)
(* `difference` at each midpoint.                                          *)

\* the comparisons before the loop ends or is left: difference < 0 or not
Signs == UNION {[1..n -> {"negative", "positive"}] : n \in 0..maxIterations}

\* the comparisons of a run: fewer than maxIterations and then a difference
\* below the threshold, or maxIterations without one
Differences ==
    {Append(q, "found") : q \in {x \in Signs : Len(x) < maxIterations}}
    \cup {x \in Signs : Len(x) = maxIterations}

\* an edge from n1 to n2 of any shape, with the comparisons of a run
BracketBodies ==
    {[nodeIndices |-> <<"n1", "n2">>,
      edgeIndices |-> <<"e1">>,
      nodes |-> [n \in {"n1", "n2"} |-> NodeOf(0, FALSE, Undefined)],
      edges |-> [e \in {"e1"} |-> Edge("n1", "n2", Undefined)],
      differences |-> d] : d \in Differences}

\* the do-while that goes round once more than maxIterations allows
RECURSIVE bisectOnceMore(_, _, _, _, _)
bisectOnceMore(differences, from, low, high, iteration) ==
    LET middle == (low + high) \div 2
        difference == IF iteration + 1 <= Len(differences)
                      THEN differences[iteration + 1] ELSE "positive"
        lowNext  == IF difference = "negative"
                    THEN (IF from = FALSE THEN middle ELSE low)
                    ELSE (IF from = FALSE THEN low ELSE middle)
        highNext == IF difference = "negative"
                    THEN (IF from = FALSE THEN high ELSE middle)
                    ELSE (IF from = FALSE THEN middle ELSE high)
        here == <<[low |-> low, middle |-> middle, high |-> high]>>
    IN  IF difference = "found" THEN here
        ELSE IF lowNext <= highNext /\ iteration + 1 <= maxIterations
             THEN here \o bisectOnceMore(differences, from, lowNext, highNext,
                                         iteration + 1)
             ELSE here

\* the do-while of _findBorderPositionBezier from `iteration` on, with the
\* comparison of each round given: the bracket and midpoint of every round,
\* in 1024ths
RECURSIVE bisectRounds(_, _, _, _, _)
bisectRounds(differences, from, low, high, iteration) ==
    LET middle == (low + high) \div 2
        difference == differences[iteration + 1]
        lowNext  == IF difference = "negative"
                    THEN (IF from = FALSE THEN middle ELSE low)
                    ELSE (IF from = FALSE THEN low ELSE middle)
        highNext == IF difference = "negative"
                    THEN (IF from = FALSE THEN high ELSE middle)
                    ELSE (IF from = FALSE THEN middle ELSE high)
        here == <<[low |-> low, middle |-> middle, high |-> high]>>
    IN  IF difference = "found" THEN here
        ELSE IF lowNext <= highNext /\ iteration + 1 < maxIterations
             THEN here \o bisectRounds(differences, from, lowNext, highNext,
                                       iteration + 1)
             ELSE here

\* _findBorderPositionBezier(nearNode, ctx) for any node and curve; the log
\* keeps nearNode, the returned t and the rounds
findBorderPositionAny ==
    \E nearNode \in NodeIds :
        \E r \in {bisectRounds(body.differences,
                               nearNode = body.edges["e1"].fromId,
                               0, 1024, 0)} :
            /\ log' = <<[kind |-> "call", type |-> "findBorderPosition",
                         id |-> nearNode, nodes |-> {}, edges |-> {},
                         prev |-> <<r[Len(r)].middle>>, list |-> r]>>
            /\ lastOp' = "findBorderPosition"
            /\ told' = Heard(told, log')
            /\ thrown' = "none"
            /\ hit' = NoHit
            /\ UNCHANGED <<acc, selected, options>>
            /\ UNCHANGED hoverVars

BracketNext == findBorderPositionAny

SpecBracket == (\E b \in BracketBodies : InitWith(b)) /\ [][BracketNext]_vars

\* C27: whatever the node and the curve answer, _findBorderPositionBezier
\* tries at most maxIterations midpoints, every bracket satisfies
\* 0 <= low <= t <= high <= 1, and it returns the last midpoint tried
\* without an error, whether or not the threshold was met.
C27_BoundedBestEffort ==
    lastOp = "findBorderPosition"
    => LET rounds == log[1].list
       IN  /\ Len(rounds) >= 1
           /\ Len(rounds) <= maxIterations
           /\ Len(rounds) = Len(body.differences)
           /\ \A i \in 1..Len(rounds) :
                /\ rounds[i].low <= rounds[i].middle
                /\ rounds[i].middle <= rounds[i].high
                /\ rounds[i].high <= 1024
                /\ 2 * rounds[i].middle = rounds[i].low + rounds[i].high
           /\ log[1].prev = <<rounds[Len(rounds)].middle>>
           /\ thrown = "none"

\* a run that never met the threshold has returned its tenth midpoint
C27_Witness ==
    /\ lastOp = "findBorderPosition"
    /\ Len(log[1].list) = maxIterations
    /\ "found" \notin Range(body.differences)
    /\ log[1].prev = <<1>>

-----------------------------------------------------------------------------
(* The distance from a point to a curved edge (SpecDistance).  Positions   *)
(* are whole pixels chosen so that every sample of the curve is a whole    *)
(* pixel too; a distance is kept as its square, a fraction num / den.      *)

\* the positions a pointer is tried at, on each axis
Coords == {0, 25, 50, 95, 100}

PlacedNode(x, y) ==
    [level |-> 0, isLabelNode |-> FALSE, labelOfNode |-> Undefined,
     x |-> x, y |-> y]

\* an edge from n1 to n2 with the control point `via`
ViaEdge(vx, vy) ==
    [fromId |-> "n1", toId |-> "n2", eventualId |-> Undefined,
     connected |-> TRUE, via |-> [x |-> vx, y |-> vy]]

\* n1 at the origin, n2 to its right or diagonally below, and a control
\* point on the chord or off it
DistanceBodies ==
    {[nodeIndices |-> <<"n1", "n2">>,
      edgeIndices |-> <<"e1">>,
      nodes |-> [n \in {"n1", "n2"} |->
                   IF n = "n1" THEN PlacedNode(0, 0) ELSE PlacedNode(100, ty)],
      edges |-> [e \in {"e1"} |-> ViaEdge(v[1], v[2])]] :
        ty \in {0, 100}, v \in {<<50, 0>>, <<50, 50>>, <<0, 100>>}}

\* minDistance = 1e9 before the loop: farther than any point of the plane
\* modelled here (as a square it stands for 1000 pixels)
Far == [num |-> 1000000, den |-> 1]

\* distance < minDistance, on squares
Closer(d, m) == d.num * m.den < m.num * d.den

\* this._getDistanceToLine(x1, y1, x2, y2, x3, y3): the distance from
\* (x3, y3) to the segment (x1, y1) - (x2, y2), squared
getDistanceToLine(x1, y1, x2, y2, x3, y3) ==
    LET px == x2 - x1
        py == y2 - y1
        something == px * px + py * py
        dot == (x3 - x1) * px + (y3 - y1) * py
        cross == (x3 - x1) * py - (y3 - y1) * px
    IN  IF dot <= 0
        THEN [num |-> (x3 - x1) * (x3 - x1) + (y3 - y1) * (y3 - y1), den |-> 1]
        ELSE IF dot >= something
        THEN [num |-> (x3 - x2) * (x3 - x2) + (y3 - y2) * (y3 - y2), den |-> 1]
        ELSE [num |-> cross * cross, den |-> something]

\* (1 - t)^2 * a + 2t(1 - t) * v + t^2 * b at t = 0.1 * i
curveAt(i, a, v, b) ==
    ((10 - i) * (10 - i) * a + 2 * i * (10 - i) * v + i * i * b) \div 100

\* the for loop of _getDistanceToBezierEdge from round i on
RECURSIVE sampleRounds(_, _, _, _, _, _, _, _, _, _, _)
sampleRounds(i, lastX, lastY, minDistance, x1, y1, x2, y2, x3, y3, via) ==
    IF i < 10
    THEN LET x == curveAt(i, x1, via.x, x2)
             y == curveAt(i, y1, via.y, y2)
             distance == getDistanceToLine(lastX, lastY, x, y, x3, y3)
         IN  sampleRounds(i + 1, x, y,
                          IF Closer(distance, minDistance)
                          THEN distance ELSE minDistance,
                          x1, y1, x2, y2, x3, y3, via)
    ELSE minDistance

getDistanceToBezierEdge(x1, y1, x2, y2, x3, y3, via) ==
    sampleRounds(1, x1, y1, Far, x1, y1, x2, y2, x3, y3, via)

\* the distance from a pointer position to the edge e1; the log keeps the
\* position and the distance
getDistanceToEdge ==
    \E x3 \in Coords, y3 \in Coords :
        \E d \in {getDistanceToBezierEdge(
                      body.nodes["n1"].x, body.nodes["n1"].y,
                      body.nodes["n2"].x, body.nodes["n2"].y,
                      x3, y3, body.edges["e1"].via)} :
            /\ log' = <<[kind |-> "call", type |-> "getDistanceToEdge",
                         id |-> "e1", nodes |-> {}, edges |-> {},
                         prev |-> <<x3, y3>>, list |-> <<d.num, d.den>>]>>
            /\ lastOp' = "getDistanceToEdge"
            /\ told' = Heard(told, log')
            /\ thrown' = "none"
            /\ hit' = NoHit
            /\ UNCHANGED <<acc, selected, options>>
            /\ UNCHANGED hoverVars

DistanceNext == getDistanceToEdge

SpecDistance == (\E b \in DistanceBodies : InitWith(b)) /\ [][DistanceNext]_vars

\* the from endpoint, the nine samples and the to endpoint of e1
PathPoints ==
    [i \in 0..10 |->
        <<curveAt(i, body.nodes["n1"].x, body.edges["e1"].via.x,
                  body.nodes["n2"].x),
          curveAt(i, body.nodes["n1"].y, body.edges["e1"].via.y,
                  body.nodes["n2"].y)>>]

\* the distance from (x3, y3) to the segment that ends at path point i
SegmentDistance(i, x3, y3) ==
    getDistanceToLine(PathPoints[i - 1][1], PathPoints[i - 1][2],
                      PathPoints[i][1], PathPoints[i][2], x3, y3)

\* C28: the distance returned is the least distance to any of the ten
\* segments that join the from endpoint, the samples at t = 0.1 ... 0.9 and
\* the to endpoint; for a pointer on the to endpoint it is 0.
C28_Original ==
    lastOp = "getDistanceToEdge"
    => LET x3 == log[1].prev[1]
           y3 == log[1].prev[2]
           d  == [num |-> log[1].list[1], den |-> log[1].list[2]]
       IN  /\ \A i \in 1..10 : ~Closer(SegmentDistance(i, x3, y3), d)
           /\ \E i \in 1..10 :
                ~Closer(d, SegmentDistance(i, x3, y3))
           /\ (x3 = body.nodes["n2"].x /\ y3 = body.nodes["n2"].y
               => d.num = 0)

\* the same for the nine segments that end at a sample
C28_SampledSegments ==
    lastOp = "getDistanceToEdge"
    => LET x3 == log[1].prev[1]
           y3 == log[1].prev[2]
           d  == [num |-> log[1].list[1], den |-> log[1].list[2]]
       IN  /\ \A i \in 1..9 : ~Closer(SegmentDistance(i, x3, y3), d)
           /\ \E i \in 1..9 :
                ~Closer(d, SegmentDistance(i, x3, y3))

-----------------------------------------------------------------------------
(* The hover flags and the hover maps (SpecFan)                            *)

\* C29: from a network with nothing hovered, a node has hover = true iff
\* its id is a key of hoverObj.nodes and an edge has hover = true iff its
\* id is a key of hoverObj.edges; this holds after every completed pass
\* and also while a pass waits.
C29_FlagsMatchMaps ==
    /\ hover \cap NodeIds = Range(hoverObj.nodes)
    /\ hover \cap EdgeIds = Range(hoverObj.edges)
    /\ Range(hoverObj.nodes) \subseteq NodeIds
    /\ Range(hoverObj.edges) \subseteq EdgeIds

\* a pass has completed with a node, its subordinate and some of their
\* edges hovered, and has emitted a hoverNode event
C29_Witness ==
    /\ lastOp = "hoverResume"
    /\ pending = <<>>
    /\ {"n1", "n2"} \subseteq hover
    /\ hover \cap EdgeIds # {}
    /\ \E i \in 1..Len(log) : log[i].kind = "emit" /\ log[i].type = "hoverNode"

\* C30: a completed pass leaves the hover maps matching its hit: after a
\* miss both maps are empty; after a hit on edge E the node map is empty
\* and the edge map is exactly {E}; after a hit on a node N that is not a
\* label node, N is in the node map and flagged.
C30_MapsMatchHit ==
    [][\A h \in {hit, hit'} :
          PassEnds(h)
          => /\ HitObject(h) = Undefined
                => hoverObj'.nodes = <<>> /\ hoverObj'.edges = <<>>
             /\ IsEdge(HitObject(h))
                => /\ hoverObj'.nodes = <<>>
                   /\ hoverObj'.edges = <<HitObject(h)>>
                   /\ HitObject(h) \in hover'
             /\ IsNode(HitObject(h)) /\ ~isLabelNode(HitObject(h))
                => /\ HitObject(h) \in Range(hoverObj'.nodes)
                   /\ HitObject(h) \in hover']_vars

\* a pass over an edge has completed and has blurred the node that was
\* hovered before it
C30_Witness ==
    /\ lastOp = "hoverObject"
    /\ ~Awaited
    /\ IsEdge(HitObject(hit))
    /\ hoverObj = [nodes |-> <<>>, edges |-> <<HitObject(hit)>>]
    /\ \E i \in 1..Len(log) : log[i].kind = "emit" /\ log[i].type = "blurNode"

-----------------------------------------------------------------------------
(* Hover and blur events as a listener sees them (SpecListen)              *)

\* the node with its label node, and a listener for the hover events
ListenBody ==
    [nodeIndices |-> FanBody.nodeIndices,
     edgeIndices |-> FanBody.edgeIndices,
     nodes |-> FanBody.nodes,
     edges |-> FanBody.edges,
     listener |-> TRUE]

SpecListen == InitWith(ListenBody) /\ [][HoverNext]_vars

\* every blur event of l from index i on names an object that the listener,
\* who took the objects of t to be hovered before l[i], takes to be hovered
RECURSIVE Paired(_, _, _)
Paired(t, l, i) ==
    \/ i > Len(l)
    \/ /\ l[i].kind = "emit" /\ l[i].type \in {"blurNode", "blurEdge"}
          => l[i].id \in t
       /\ Paired(heardOne(t, l[i]), l, i + 1)

\* C31 (as stated): every blurNode (blurEdge) event for an object is
\* preceded by a hoverNode (hoverEdge) event for the same object with no
\* other blur event for that object in between.
C31_Original == [][Paired(told, log', 1)]_vars

\* the same for the nodes alone
C31_NodesPaired ==
    [][Paired(told \cup EdgeIds, log', 1)]_vars

-----------------------------------------------------------------------------
(* What a successful setSelection selects (SpecSet)                        *)

\* the listed nodes that are not label nodes
ListedNodes(sel) == {n \in Range(sel.nodes) : ~isLabelNode(n)}

\* the selection the claim expects of a call: what is kept of the prior
\* selection, the listed nodes, their edges when he holds, the listed edges
Expected(sel, keep, he) ==
    [nodes |-> (IF keep THEN getSelection(acc).nodes ELSE {})
               \cup ListedNodes(sel),
     edges |-> (IF keep THEN getSelection(acc).edges ELSE {})
               \cup (IF he THEN UNION {nodeEdges(n) : n \in ListedNodes(sel)}
                     ELSE {})
               \cup Range(sel.edges)]

\* the accumulator has nothing to commit
Committed(a) ==
    /\ changes(a).nodes.added = {} /\ changes(a).nodes.deleted = {}
    /\ changes(a).edges.added = {} /\ changes(a).edges.deleted = {}

-----------------------------------------------------------------------------
(* What a failed setSelection leaves behind (SpecSet)                      *)

\* the index of the first id of ids that is not in S; Len(ids) + 1 if none
FirstUnknown(ids, S) ==
    IF \E i \in 1..Len(ids) : ids[i] \notin S
    THEN CHOOSE i \in 1..Len(ids) :
            /\ ids[i] \notin S
            /\ \A j \in 1..(i - 1) : ids[j] \in S
    ELSE Len(ids) + 1

\* what setSelection has staged when it meets the first unknown id of sel,
\* with the options left out: the non-label nodes listed before it with
\* their edges (under selectConnectedEdges) and, if every node is known,
\* the edges listed before it
Staged(sel) ==
    LET k == FirstUnknown(sel.nodes, NodeIds)
        ns == {sel.nodes[i] : i \in 1..(k - 1)}
        j == IF k > Len(sel.nodes) THEN FirstUnknown(sel.edges, EdgeIds) ELSE 1
        es == {sel.edges[i] : i \in 1..(j - 1)}
        added == {n \in ns : ~isLabelNode(n)}
    IN  [nodes |-> added,
         edges |-> es \cup (IF options.selectConnectedEdges
                            THEN UNION {nodeEdges(n) : n \in added}
                            ELSE {})]

-----------------------------------------------------------------------------
(* The toggle of selectAdditionalOnPoint (SpecSel)                         *)

\* C34: with selectable true and an object under the pointer,
\* selectAdditionalOnPoint takes the object out of the selection if its
\* selected flag is true (a node with every edge attached to it) and puts
\* it in if the flag is false (a node with its edges when
\* selectConnectedEdges is true), emits _requestRedraw and returns true;
\* with nothing under the pointer or selectable false it leaves the
\* selection as it is, emits nothing and returns false.
C34_ToggleOnFlag ==
    \A p \in Pointers :
        LET r == selectAdditionalOnPointDo(acc, selected, options, p)
            obj == objectAt(p)
            before == getSelection(acc)
            after == getSelection(r.acc)
        IN  IF options.selectable = TRUE /\ obj # Undefined
            THEN /\ r.changed = TRUE
                 /\ Redraw \in Range(r.log)
                 /\ obj \in selected /\ IsNode(obj)
                    => /\ after.nodes = before.nodes \ {obj}
                       /\ after.edges = before.edges \ nodeEdges(obj)
                 /\ obj \in selected /\ IsEdge(obj)
                    => /\ after.nodes = before.nodes
                       /\ after.edges = before.edges \ {obj}
                 /\ obj \notin selected /\ IsNode(obj)
                    => /\ after.nodes = before.nodes \cup {obj}
                       /\ after.edges
                            = before.edges
                              \cup (IF options.selectConnectedEdges = TRUE
                                    THEN nodeEdges(obj) ELSE {})
                 /\ obj \notin selected /\ IsEdge(obj)
                    => /\ after.nodes = before.nodes
                       /\ after.edges = before.edges \cup {obj}
            ELSE /\ r.changed = FALSE
                 /\ r.acc = acc
                 /\ r.selected = selected
                 /\ Events(r.log) = <<>>

\* the handler has taken a flagged node out of the selection together with
\* an edge of it
C34_Witness ==
    /\ lastOp = "selectAdditionalOnPoint"
    /\ \E i \in 1..Len(log) :
          /\ log[i].type = "deselectObject"
          /\ IsNode(log[i].id)
          /\ log[i].id \notin acc.nodes
          /\ log[i].id \in acc.prevNodes
          /\ nodeEdges(log[i].id) \cap acc.prevEdges # {}
          /\ nodeEdges(log[i].id) \cap acc.edges = {}
    /\ Redraw \in Range(log)

-----------------------------------------------------------------------------
(* Ellipse.draw (SpecDraw): a node of ellipse shape is drawn; what is      *)
(* painted is kept as the calls of the log.                                *)

\* a node with the options the shape reads
ShapeNode(lbl, owner, label) ==
    [level |-> 0, isLabelNode |-> lbl, labelOfNode |-> owner, label |-> label]

\* this.options.label: absent, blank or a text
Labels == {Undefined, "", "text"}

\* node n1 and node n2, which is a label node of n1, a label node of a node
\* that is not in the network, or no label node
DrawBodies ==
    {[nodeIndices |-> <<"n1", "n2">>,
      edgeIndices |-> <<"e1">>,
      nodes |-> [n \in {"n1", "n2"} |->
                   IF n = "n1" THEN ShapeNode(FALSE, Undefined, "text")
                   ELSE ShapeNode(owner # Undefined, owner, label)],
      edges |-> [e \in {"e1"} |-> Edge("n2", "n1", Undefined)]] :
        owner \in {"n1", MissingId, Undefined}, label \in Labels}

\* draw(ctx, x, y, selected, hover, values) of the shape of node n; flags
\* are the .selected flags of the network
drawDo(flags, n) ==
    LET opts == body.nodes[n]
        owner == opts.labelOfNode
        placed == IF opts.isLabelNode = TRUE /\ owner \in NodeIds
                  THEN <<Call("placeBy", owner)>> ELSE <<>>
        sized == placed \o <<Call("resize", n)>>
    IN  IF owner \notin NodeIds
        THEN [log |-> sized, thrown |-> "TypeError"]
        ELSE [log |-> sized
                      \o (IF owner \in flags /\ opts.label \in {Undefined, ""}
                          THEN <<Call("initContextForDraw", n),
                                 Call("drawRoundRect", n), Call("stroke", n)>>
                          ELSE <<>>)
                      \o <<Call("updateBoundingBox", n),
                           Call("labelModule.draw", n)>>,
              thrown |-> "none"]

draw ==
    \E n \in NodeIds :
        \E r \in {drawDo(selected, n)} :
            /\ log' = r.log
            /\ lastOp' = "draw"
            /\ told' = Heard(told, log')
            /\ thrown' = r.thrown
            /\ hit' = NoHit
            /\ UNCHANGED <<acc, selected, options>>
            /\ UNCHANGED hoverVars

\* the network is drawn between clicks and commits
DrawNext ==
    \/ draw
    \/ selectOnPoint
    \/ commitWithoutEmitting

SpecDraw == (\E b \in DrawBodies : InitWith(b)) /\ [][DrawNext]_vars

\* the node whose shape the last draw painted
Drawn == log[Len(log)].id

\* the log has a call of the given name
Called(name) == \E i \in 1..Len(log) : log[i].type = name

\* C35 (as stated): Ellipse.draw throws for no ellipse node, be it no label
\* node, a label node whose owner is not in body.nodes or a label node
\* with its owner; it reaches updateBoundingBox and the label draw, and it
\* strokes the outline only when the owner is selected and the label is
\* undefined or empty.
C35_Original ==
    lastOp = "draw"
    => /\ thrown = "none"
       /\ Called("updateBoundingBox")
       /\ Called("labelModule.draw")
       /\ Called("stroke")
          => /\ body.nodes[Drawn].labelOfNode \in selected
             /\ body.nodes[Drawn].label \in {Undefined, ""}

\* the same for the label nodes whose owner is in the network
C35_OwnerPresent ==
    lastOp = "draw" /\ log[1].type = "placeBy"
    => /\ thrown = "none"
       /\ Called("updateBoundingBox")
       /\ Called("labelModule.draw")
       /\ Called("stroke")
          <=> /\ body.nodes[Drawn].labelOfNode \in selected
              /\ body.nodes[Drawn].label \in {Undefined, ""}

====
